---- MODULE Spec2Model ----
(***************************************************************************)
(* A model of the balogan logging library (github.com/dr3dnought/balogan): *)
(* the Logger's construction, derivation, emission pipeline, multi-writer  *)
(* dispatch and Close.                                                     *)
(*                                                                         *)
(* Go strings are modelled as sequences of tokens (a token is a short      *)
(* piece of text); "" is the empty sequence and concatenation is \o.       *)
(* Go slices are modelled as (array, len, cap) headers over a heap of      *)
(* backing arrays, Go maps as references into a heap of mappings.          *)
(***************************************************************************)
EXTENDS Integers, Sequences, FiniteSets, TLC

\* ------------------------------------------------------------ bounds ----

\* Number of writers configured on the logger under dispatch.
NumWriters == 2

\* Number of calls (each from its own goroutine) made on the logger.
NumCalls == 2

\* Number of derivation steps explored from the constructed logger.
MaxDerive == 3

\* Number of operations made on Fields mappings.
MaxFieldOps == 3

\* Conditions have at most MaxSubs operands and are called MaxCondCalls times,
\* while the clock advances by at most MaxTicks ticks, TicksPerSecond to a
\* second.
MaxSubs == 2

MaxCondCalls == 4

MaxTicks == 2

TicksPerSecond == 2

\* ------------------------------------------------------------ levels ----

TraceLevel == -1
DebugLevel == 0
InfoLevel == 1
WarningLevel == 2
ErrorLevel == 3
FatalLevel == 4
PanicLevel == 5

Levels == TraceLevel..PanicLevel

LevelString(level) ==
    CASE level = TraceLevel -> <<"TRACE">>
      [] level = DebugLevel -> <<"DEBUG">>
      [] level = InfoLevel -> <<"INFO">>
      [] level = WarningLevel -> <<"WARNING">>
      [] level = ErrorLevel -> <<"ERROR">>
      [] level = FatalLevel -> <<"FATAL">>
      [] level = PanicLevel -> <<"PANIC">>
      [] OTHER -> <<"UNKNOWN">>

IsEnabledStrict(level, minLevel) == level > minLevel

IsEnabled(level, minLevel) == level >= minLevel

ShouldExit(level) == level >= FatalLevel

ShouldPanic(level) == level = PanicLevel

\* ----------------------------------------------------------- strings ----

RECURSIVE Join(_, _)
\* strings.Join: the parts with sep between each two neighbours.
Join(parts, sep) ==
    IF Len(parts) = 0 THEN <<>>
    ELSE IF Len(parts) = 1 THEN parts[1]
    ELSE parts[1] \o sep \o Join(Tail(parts), sep)

\* An operand of a print call: a string or a number, with its text.
StrOp(s) == [isStr |-> TRUE, text |-> <<s>>]

IntOp(n) == [isStr |-> FALSE, text |-> <<ToString(n)>>]

RECURSIVE Sprint(_)
\* fmt.Sprint: the operands' texts, a space between two operands when
\* neither of them is a string.
Sprint(args) ==
    IF Len(args) = 0 THEN <<>>
    ELSE IF Len(args) = 1 THEN args[1].text
    ELSE args[1].text
         \o (IF ~args[1].isStr /\ ~args[2].isStr THEN <<" ">> ELSE <<>>)
         \o Sprint(Tail(args))

RECURSIVE Sprintf(_, _)
\* fmt.Sprintf: the format's tokens, each verb replaced by the next operand.
Sprintf(format, args) ==
    IF Len(format) = 0 THEN <<>>
    ELSE IF Head(format) = "%v"
         THEN (IF Len(args) = 0 THEN <<"%!v(MISSING)">> \o Sprintf(Tail(format), args)
               ELSE Head(args).text \o Sprintf(Tail(format), Tail(args)))
         ELSE <<Head(format)>> \o Sprintf(Tail(format), args)

\* ------------------------------------------------------------ fields ----

\* The field keys of the model, in lexicographic order (sort.Strings).
KeyOrder == <<"id", "role", "user">>

Keys == {KeyOrder[i] : i \in 1..Len(KeyOrder)}

RECURSIVE SortedKeysFrom(_, _)
SortedKeysFrom(f, i) ==
    IF i > Len(KeyOrder) THEN <<>>
    ELSE (IF KeyOrder[i] \in DOMAIN f THEN <<KeyOrder[i]>> ELSE <<>>)
         \o SortedKeysFrom(f, i + 1)

\* The keys of a mapping, sorted.
SortedKeys(f) == SortedKeysFrom(f, 1)

EmptyFields == [k \in {} |-> <<>>]

\* KeyValueFormatter.Format: key=value pairs in key order, joined by the
\* separator, which is a single space when none is configured.
KeyValueFormat(separator, f) ==
    IF DOMAIN f = {} THEN <<>>
    ELSE LET sep == IF separator = <<>> THEN <<" ">> ELSE separator
             keys == SortedKeys(f)
             pairs == [i \in 1..Len(keys) |-> <<keys[i], "=">> \o f[keys[i]]]
         IN Join(pairs, sep)

\* LogfmtFormatter.Format: as key=value, the value quoted when its text holds
\* a space or an equals sign.
LogfmtFormat(f) ==
    IF DOMAIN f = {} THEN <<>>
    ELSE LET keys == SortedKeys(f)
             quoted(v) == IF \E i \in 1..Len(v) : v[i] \in {" ", "="}
                          THEN <<"\"">> \o v \o <<"\"">> ELSE v
             pairs == [i \in 1..Len(keys) |-> <<keys[i], "=">> \o quoted(f[keys[i]])]
         IN Join(pairs, <<" ">>)

\* JSONFormatter.Format: one JSON object, keys sorted by encoding/json.
JSONFormat(f) ==
    IF DOMAIN f = {} THEN <<>>
    ELSE LET keys == SortedKeys(f)
             pairs == [i \in 1..Len(keys) |->
                          <<"\"", keys[i], "\"", ":", "\"">> \o f[keys[i]] \o <<"\"">>]
         IN <<"{">> \o Join(pairs, <<",">>) \o <<"}">>

\* A formatter value: its kind and, for key=value, its separator.
KeyValueFormatter(separator) == [kind |-> "keyvalue", sep |-> separator]

LogfmtFormatter == [kind |-> "logfmt", sep |-> <<>>]

JSONFormatter == [kind |-> "json", sep |-> <<>>]

\* The nil FieldsFormatter of a configuration that names none.
NilFormatter == [kind |-> "nil", sep |-> <<>>]

\* A FieldsFormatter of the caller's own, whose Format returns a fixed text.
CustomFormatter(text) == [kind |-> "custom", sep |-> text]

\* FieldsFormatter.Format, by the formatter's dynamic type.
Format(formatter, f) ==
    CASE formatter.kind = "keyvalue" -> KeyValueFormat(formatter.sep, f)
      [] formatter.kind = "logfmt" -> LogfmtFormat(f)
      [] formatter.kind = "json" -> JSONFormat(f)
      [] formatter.kind = "custom" -> formatter.sep

\* ---------------------------------------------------------- prefixes ----

WithLogLevel(level) == [kind |-> "level", level |-> level, tag |-> <<>>]

WithTag(tag) == [kind |-> "tag", level |-> 0, tag |-> tag]

\* Calling a prefix builder.
CallPrefix(b) ==
    CASE b.kind = "level" -> LevelString(b.level)
      [] b.kind = "tag" -> b.tag

\* -------------------------------------------------------------- state ----

Calls == 1..NumCalls

\* The names of the Logger instances there can be: the constructed one and
\* those derived from it.
LoggerIds == 1..(MaxDerive + 1)

NoCall == 0

VARIABLES
    loggers,        \* the Logger instances: a sequence of Logger structs
    arrays,         \* the heap of backing arrays of prefix slices
    fmaps,          \* the heap of Fields maps
    DefaultFieldsFormatter, \* the package-wide default formatter
    mutex,          \* per Logger: the call holding Logger.mutex, or NoCall
    call,           \* per call: its position and local variables
    gor,            \* per call and writer index: the goroutine write/Close started
    invoked,        \* per writer: the Write invocations it got, in order
    running,        \* per writer: the calls now inside its Write or Close
    closes,         \* per writer: the Close invocations it got, in order
    handled,        \* the errors the error handler was handed, in order
    renderOrder,    \* the calls in the order their messages were rendered
    dispatchOrder,  \* the calls in the order they entered write or Close
    exited,         \* the call that ended the process by os.Exit, or NoCall
    snapshot,       \* per Logger: what it held and rendered when it was created
    parent,         \* per Logger: the Logger it was derived from, or 0
    cond,           \* the Condition under evaluation
    cstate,         \* per place in cond: the variables its closure captured
    clock,          \* what time.Now() returns
    ev,             \* per caller: where its evaluation of cond is
    history,        \* per place in cond: the calls it got, in the order made
    results,        \* the evaluations of cond that returned
    lastOp,         \* the last operation made on a Fields mapping or a writer
    files,          \* the FileLogWriters: what w.file is, and the file's bytes
    ctxs,           \* the context.Contexts made: parent, key and value of each
    stdout          \* what was printed on standard output

\* The conditions: closures on the heap, and the callers evaluating them.
condVars == <<cond, cstate, clock, ev, history, results>>

\* What the library's other parts hold.
libVars == <<lastOp, files, ctxs, stdout>>

heapVars == <<loggers, arrays, fmaps, DefaultFieldsFormatter, snapshot, parent,
              condVars, libVars>>

envVars == <<invoked, running, closes, handled>>

vars == <<loggers, arrays, fmaps, DefaultFieldsFormatter, mutex, call, gor,
          invoked, running, closes, handled, renderOrder, dispatchOrder,
          exited, snapshot, parent, cond, cstate, clock, ev, history, results,
          lastOp, files, ctxs, stdout>>

\* -------------------------------------------------------- conditions ----

\* One second, in ticks of the clock.
Second == TicksPerSecond

\* The zero time.Time, and a time of the wall clock: later than the zero time
\* by more than any window.
ZeroTime == 0

StartTime == ZeroTime + Second

\* A Condition value: a closure of one of the kinds below; arg is the number
\* it was made with and subs the conditions it was made from.
Leaf(kind, arg) == [kind |-> kind, arg |-> arg, subs |-> <<>>]

Always == Leaf("always", 0)

Never == Leaf("never", 0)

CountBased(maxCount) == Leaf("count", maxCount)

RateLimit(maxPerSecond) ==
    IF maxPerSecond <= 0 THEN Never ELSE Leaf("rate", maxPerSecond)

SampleEveryN(n) == IF n <= 1 THEN Always ELSE Leaf("sample", n)

And(conditions) == [kind |-> "and", arg |-> 0, subs |-> conditions]

Or(conditions) == [kind |-> "or", arg |-> 0, subs |-> conditions]

\* condition.go's Any (TLC has an operator of that name).
AnyOf(conditions) == Or(conditions)

All(conditions) == And(conditions)

\* The places of a condition: 0 is the condition itself, i its i-th operand.
Places == 0..MaxSubs

\* What a new closure captured: an unlocked mutex, count 0, the zero time.
NewClosure == [mu |-> 0, count |-> 0, lastReset |-> ZeroTime]

IdleEval == [pc |-> "idle", idx |-> 0, now |-> ZeroTime, trace |-> <<>>,
             tmp |-> [count |-> 0, lastReset |-> ZeroTime]]

\* Condition c0 was made, and nobody has called it.
InitCond(c0) ==
    /\ cond = c0
    /\ cstate = [i \in Places |-> NewClosure]
    /\ clock = StartTime
    /\ ev = [c \in Calls |-> IdleEval]
    /\ history = [i \in Places |-> <<>>]
    /\ results = <<>>

\* ------------------------------------------------- the other parts ----

\* No operation on a Fields mapping was made yet.
\* context.Background(), the first context there is; a nil Context is 0.
Background == [parent |-> 0, key |-> [type |-> "none", name |-> ""],
               val |-> [type |-> "nil", v |-> 0], by |-> "Background"]

NoOp == [n |-> 0, op |-> "none", recv |-> 0, key |-> "", value |-> <<>>,
         other |-> 0, result |-> 0, err |-> "nil"]

InitLib ==
    /\ lastOp = NoOp
    /\ files = <<>>
    /\ ctxs = <<Background>>
    /\ stdout = <<>>

\* ------------------------------------------------------------ slices ----

\* A slice header over the heap of arrays; array 0 is nil.
NilSlice == [arr |-> 0, len |-> 0, cap |-> 0]

\* The elements a slice shows: the first len cells of its array.
Elems(heap, s) == IF s.len = 0 THEN <<>> ELSE SubSeq(heap[s.arr], 1, s.len)

\* The cell a freshly allocated array holds before it is written.
NilCell == [kind |-> "nil", level |-> 0, tag |-> <<>>]

\* Capacities the allocator hands out for arrays of 8-byte cells.
SizeClassCaps == {1, 2, 3, 4, 6, 8, 10, 12, 14, 16}

RoundUpCap(n) == CHOOSE k \in SizeClassCaps :
                     k >= n /\ \A j \in SizeClassCaps : j >= n => k <= j

\* runtime.growslice for small slices: double, or the needed length when
\* that is more than double, rounded up to a size class.
GrowCap(oldCap, needed) ==
    IF needed > 2 * oldCap THEN RoundUpCap(needed) ELSE RoundUpCap(2 * oldCap)

\* append(s, items...): <<heap', slice'>>.  Within capacity the items are
\* written into the slice's own array after its len; otherwise a new array
\* is allocated and the elements copied.
GoAppend(heap, s, items) ==
    LET needed == s.len + Len(items) IN
    IF Len(items) = 0 THEN <<heap, s>>
    ELSE IF needed <= s.cap
    THEN <<[heap EXCEPT ![s.arr] =
                [j \in 1..Len(@) |-> IF j > s.len /\ j <= needed
                                     THEN items[j - s.len] ELSE @[j]]],
           [s EXCEPT !.len = needed]>>
    ELSE LET newCap == GrowCap(s.cap, needed)
             fresh == [j \in 1..newCap |->
                          IF j <= s.len THEN heap[s.arr][j]
                          ELSE IF j <= needed THEN items[j - s.len]
                          ELSE NilCell]
         IN <<Append(heap, fresh),
              [arr |-> Len(heap) + 1, len |-> needed, cap |-> newCap]>>

\* ------------------------------------------------------------ render ----

\* Logger.buildPrefixStr, on heap hp: every builder's string, joined by a
\* space.
BuildPrefixStr(hp, l) ==
    LET ps == Elems(hp, l.prefixes) IN
    Join([i \in 1..Len(ps) |-> CallPrefix(ps[i])], <<" ">>)

\* A faulty buildMessage: all four parts are joined, the empty ones too.
BuildMessageAllParts(hp, maps, l, level, message) ==
    Join(<<LevelString(level), BuildPrefixStr(hp, l),
           Format(l.fieldsFormatter, maps[l.fields]), message>>, <<" ">>)

\* A faulty buildMessage: the fields are formatted by the package-wide
\* default of the moment, not by the formatter the Logger holds.
BuildMessageByDefault(hp, maps, l, level, message) ==
    LET prefixStr == BuildPrefixStr(hp, l)
        fieldsStr == Format(DefaultFieldsFormatter, maps[l.fields])
        p1 == <<LevelString(level)>>
        p2 == IF prefixStr # <<>> THEN Append(p1, prefixStr) ELSE p1
        p3 == IF Cardinality(DOMAIN maps[l.fields]) > 0 /\ fieldsStr # <<>>
              THEN Append(p2, fieldsStr) ELSE p2
    IN Join(Append(p3, message), <<" ">>)

\* Logger.buildMessage, on heap hp and maps.
BuildMessage(hp, maps, l, level, message) ==
    LET prefixStr == BuildPrefixStr(hp, l)
        fieldsStr == Format(l.fieldsFormatter, maps[l.fields])
        p1 == <<LevelString(level)>>
        p2 == IF prefixStr # <<>> THEN Append(p1, prefixStr) ELSE p1
        p3 == IF Cardinality(DOMAIN maps[l.fields]) > 0 /\ fieldsStr # <<>>
              THEN Append(p2, fieldsStr) ELSE p2
    IN Join(Append(p3, message), <<" ">>)

\* ------------------------------------------------------- constructors ----

\* A BaloganConfig value; fields is a map reference (0 is the nil map) and
\* formatter is a formatter value or NilFormatter.
Config(level, writers, prefixes, concurrency, fields, formatter) ==
    [Level |-> level, Writers |-> writers, Prefixes |-> prefixes,
     Concurrency |-> concurrency, Fields |-> fields,
     FieldsFormatter |-> formatter]

\* NewFromConfig: <<fmaps', logger>>.  A nil cfg.Fields becomes a new empty
\* map; a map the caller gave is kept as it is.
NewFromConfig(maps, cfg, default) ==
    LET newMaps == IF cfg.Fields = 0 THEN Append(maps, EmptyFields) ELSE maps
        fields == IF cfg.Fields = 0 THEN Len(maps) + 1 ELSE cfg.Fields
        formatter == IF cfg.FieldsFormatter = NilFormatter THEN default
                     ELSE cfg.FieldsFormatter
    IN <<newMaps,
         [level |-> cfg.Level, writers |-> cfg.Writers,
          prefixes |-> cfg.Prefixes, errorHandler |-> "default",
          concurrency |-> cfg.Concurrency, fields |-> fields,
          fieldsFormatter |-> formatter]>>

\* The writer NewStdOutLogWriter() returns, which is none of WriterIds.
StdOutWriter == 0

\* New(level, writer, prefixes...): <<fmaps', logger>>.  writer is
\* StdOutWriter for a nil writer.
New(maps, level, writer, prefixes, default) ==
    <<Append(maps, EmptyFields),
      [level |-> level, writers |-> <<writer>>, prefixes |-> prefixes,
       errorHandler |-> "default", concurrency |-> FALSE,
       fields |-> Len(maps) + 1, fieldsFormatter |-> default]>>

\* What a Logger holds and renders, read through the heap.
View(hp, maps, l) ==
    [level |-> l.level, writers |-> l.writers,
     prefixes |-> Elems(hp, l.prefixes), concurrency |-> l.concurrency,
     fields |-> maps[l.fields], fieldsFormatter |-> l.fieldsFormatter,
     errorHandler |-> l.errorHandler,
     rendered |-> BuildMessage(hp, maps, l, InfoLevel, <<"m">>)]

\* ---------------------------------------------------------- dispatch ----

WriterIds == 1..NumWriters

IdleCall ==
    [pc |-> "idle", kind |-> "none", after |-> "return", target |-> 0,
     level |-> 0,
     msg |-> <<>>, full |-> <<>>, formats |-> 0, errs |-> <<>>, idx |-> 0,
     errsMu |-> 0, failed |-> {}, ret |-> "none", panicVal |-> "none"]

IdleGor == [i \in WriterIds |-> [st |-> "none", tmp |-> <<>>]]

\* The logger a call was made on, and its writers.
Target(c) == loggers[call[c].target]

WritersOf(c) == Target(c).writers

\* An error value: which writer returned it, from which operation of which call.
Err(w, op, c) == [writer |-> w, op |-> op, call |-> c]

\* The mutex a call on logger lg takes: the one in lg's own struct.  (The
\* faulty variant has every logger take the first logger's.)
MutexOfFirst(lg) == 1

MutexOf(lg) == lg

\* sync.Mutex.Lock on Logger.mutex returns only when no call holds it.
MutexFreeAlways(lg) == TRUE

MutexFree(lg) == mutex[lg] = NoCall

\* errsMu.Lock in a writer's goroutine returns only when no sibling holds it.
ErrsMuFreeAlways(c) == TRUE

ErrsMuFree(c) == call[c].errsMu = 0

\* wg.Wait returns only when every goroutine of the call has called wg.Done.
WgZeroAlways(c) == TRUE

WgZero(c) == \A i \in 1..Len(WritersOf(c)) : gor[c][i].st = "done"

\* The shared start of Log and Logf: the level check, then the formatting of
\* the message.  after is what the calling method does when Log has returned
\* (Fatal: "exit", Panic: "panic", else "return"); pre says the calling method
\* formatted the message itself before the call.
BeginLog(c, lg, level, after, pre, body) ==
    LET enabled == IsEnabled(level, loggers[lg].level) IN
    /\ exited = NoCall
    /\ lg \in DOMAIN loggers
    /\ call[c].pc = "idle"
    /\ call' = [call EXCEPT ![c] =
           [@ EXCEPT !.pc = IF enabled THEN "render"
                           ELSE IF after # "return" THEN "after"
                           ELSE "returned",
                     !.kind = "log", !.after = after, !.target = lg,
                     !.level = level,
                     !.msg = IF enabled \/ pre THEN body ELSE <<>>,
                     !.formats = (IF pre THEN 1 ELSE 0)
                                 + (IF enabled THEN 1 ELSE 0)]]
    /\ UNCHANGED <<heapVars, envVars, mutex, gor, renderOrder, dispatchOrder,
                   exited>>

\* Logger.Log(level, args...).
Log(c, lg, level, args) == BeginLog(c, lg, level, "return", FALSE, Sprint(args))

\* Logger.Logf(level, format, args...).
Logf(c, lg, level, format, args) ==
    BeginLog(c, lg, level, "return", FALSE, Sprintf(format, args))

Trace(c, lg, args) == Log(c, lg, TraceLevel, args)

Tracef(c, lg, format, args) == Logf(c, lg, TraceLevel, format, args)

Debug(c, lg, args) == Log(c, lg, DebugLevel, args)

Debugf(c, lg, format, args) == Logf(c, lg, DebugLevel, format, args)

Info(c, lg, args) == Log(c, lg, InfoLevel, args)

Infof(c, lg, format, args) == Logf(c, lg, InfoLevel, format, args)

Warning(c, lg, args) == Log(c, lg, WarningLevel, args)

Warningf(c, lg, format, args) == Logf(c, lg, WarningLevel, format, args)

Error(c, lg, args) == Log(c, lg, ErrorLevel, args)

Errorf(c, lg, format, args) == Logf(c, lg, ErrorLevel, format, args)

\* Logger.Fatal: Log at FATAL, then FatalLevel.Exit().
Fatal(c, lg, args) == 
    BeginLog(c, lg, FatalLevel, "exit", FALSE, Sprint(args))

Fatalf(c, lg, format, args) ==
    BeginLog(c, lg, FatalLevel, "exit", FALSE, Sprintf(format, args))

\* Logger.Panic: the message is formatted, then Log at PANIC, then
\* PanicLevel.Panic(message).
Panic(c, lg, args) == 
    BeginLog(c, lg, PanicLevel, "panic", TRUE, Sprint(args))

Panicf(c, lg, format, args) ==
    BeginLog(c, lg, PanicLevel, "panic", TRUE, Sprintf(format, args))

\* Log's and Logf's call of buildMessage.
Render(c) ==
    /\ exited = NoCall
    /\ call[c].pc = "render"
    /\ call' = [call EXCEPT ![c].pc = "lock",
                            ![c].full = BuildMessage(arrays, fmaps, Target(c),
                                                     call[c].level,
                                                     call[c].msg)]
    /\ renderOrder' = Append(renderOrder, c)
    /\ UNCHANGED <<heapVars, envVars, mutex, gor, dispatchOrder, exited>>

\* Logger.Close is called.
Close(c, lg) ==
    /\ exited = NoCall
    /\ lg \in DOMAIN loggers
    /\ call[c].pc = "idle"
    /\ call' = [call EXCEPT ![c].pc = "lock", ![c].kind = "close",
                            ![c].target = lg]
    /\ UNCHANGED <<heapVars, envVars, mutex, gor, renderOrder, dispatchOrder,
                   exited>>

\* The start of write and of Close: the mutex is taken; in concurrent mode a
\* goroutine per writer is started, otherwise the loop over the writers begins.
Lock(c) ==
    LET lg == call[c].target
        n == Len(WritersOf(c)) IN
    /\ exited = NoCall
    /\ call[c].pc = "lock"
    /\ MutexFree(MutexOf(lg))
    /\ mutex' = [mutex EXCEPT ![MutexOf(lg)] = c]
    /\ dispatchOrder' = Append(dispatchOrder, c)
    /\ IF Target(c).concurrency
       THEN /\ call' = [call EXCEPT ![c].pc = "wait"]
            /\ gor' = [gor EXCEPT ![c] =
                   [i \in WriterIds |->
                       [st |-> IF i <= n THEN "spawned" ELSE "none",
                        tmp |-> <<>>]]]
       ELSE /\ call' = [call EXCEPT ![c].pc = IF n = 0 THEN "handle" ELSE "loop",
                                    ![c].idx = 1]
            /\ UNCHANGED gor
    /\ UNCHANGED <<heapVars, envVars, renderOrder, exited>>

IsClose(c) == call[c].kind = "close"

\* Where a call goes when its loop over the writers ends.
AfterLoop(c) == IF IsClose(c) THEN "join" ELSE "handle"

\* []byte(message), what a writer's Write is handed: the bytes of the
\* message and nothing else.  (The faulty variant ends them with a newline.)
BytesLine(message) == message \o <<"\n">>

Bytes(message) == message

\* Sequential write: writer.Write([]byte(message)) is invoked on the next writer.
SeqWriteCall(c) ==
    LET w == WritersOf(c)[call[c].idx] IN
    /\ exited = NoCall
    /\ call[c].pc = "loop" /\ ~IsClose(c)
    /\ invoked' = [invoked EXCEPT ![w] =
                      Append(@, [call |-> c, bytes |-> Bytes(call[c].full)])]
    /\ running' = [running EXCEPT ![w] = @ \cup {c}]
    /\ call' = [call EXCEPT ![c].pc = "inwriter"]
    /\ UNCHANGED <<heapVars, closes, handled, mutex, gor, renderOrder,
                   dispatchOrder, exited>>

\* Sequential write: the range over l.writers ends with the last writer.
\* (The faulty variant leaves the loop after any writer.)
LastWriterAny(c) == TRUE

LastWriter(c) == call[c].idx = Len(WritersOf(c))

\* Sequential write: errs = append(errs, err).  (The faulty variant puts
\* the error in front.)
CollectFront(errs, err) == <<err>> \o errs

Collect(errs, err) == Append(errs, err)

\* Sequential write: the writer's Write returns, with an error or without.
SeqWriteReturn(c, ok) ==
    LET w == WritersOf(c)[call[c].idx]
        last == LastWriter(c) IN
    /\ exited = NoCall
    /\ call[c].pc = "inwriter" /\ ~IsClose(c)
    /\ running' = [running EXCEPT ![w] = @ \ {c}]
    /\ call' = [call EXCEPT
           ![c].pc = IF last THEN AfterLoop(c) ELSE "loop",
           ![c].idx = IF last THEN 1 ELSE @ + 1,
           ![c].errs = IF ok THEN @ ELSE Collect(@, Err(w, "write", c)),
           ![c].failed = IF ok THEN @ ELSE @ \cup {w}]
    /\ UNCHANGED <<heapVars, invoked, closes, handled, mutex, gor, renderOrder,
                   dispatchOrder, exited>>

\* Concurrent write: a goroutine invokes its writer's Write.
GoWriteCall(c, i) ==
    LET w == WritersOf(c)[i] IN
    /\ exited = NoCall
    /\ ~IsClose(c) /\ gor[c][i].st = "spawned"
    /\ invoked' = [invoked EXCEPT ![w] =
                      Append(@, [call |-> c, bytes |-> Bytes(call[c].full)])]
    /\ running' = [running EXCEPT ![w] = @ \cup {c}]
    /\ gor' = [gor EXCEPT ![c][i].st = "inwriter"]
    /\ UNCHANGED <<heapVars, closes, handled, mutex, call, renderOrder,
                   dispatchOrder, exited>>

\* Concurrent write: the Write returns; without an error the goroutine ends
\* (wg.Done), with one it goes on to record it.
GoWriteReturn(c, i, ok) ==
    LET w == WritersOf(c)[i] IN
    /\ exited = NoCall
    /\ ~IsClose(c) /\ gor[c][i].st = "inwriter"
    /\ running' = [running EXCEPT ![w] = @ \ {c}]
    /\ gor' = [gor EXCEPT ![c][i].st = IF ok THEN "done" ELSE "failed"]
    /\ call' = [call EXCEPT ![c].failed = IF ok THEN @ ELSE @ \cup {w}]
    /\ UNCHANGED <<heapVars, invoked, closes, handled, mutex, renderOrder,
                   dispatchOrder, exited>>

\* Concurrent write: errsMu.Lock(), then errs is read for the append.
GoErrLock(c, i) ==
    /\ exited = NoCall
    /\ ~IsClose(c) /\ gor[c][i].st = "failed"
    /\ ErrsMuFree(c)
    /\ call' = [call EXCEPT ![c].errsMu = i]
    /\ gor' = [gor EXCEPT ![c][i].st = "append", ![c][i].tmp = call[c].errs]
    /\ UNCHANGED <<heapVars, envVars, mutex, renderOrder, dispatchOrder, exited>>

\* Concurrent write: errs = append(errs, err), errsMu.Unlock(), wg.Done().
GoErrAppend(c, i) ==
    /\ exited = NoCall
    /\ ~IsClose(c) /\ gor[c][i].st = "append"
    /\ call' = [call EXCEPT
           ![c].errs = Append(gor[c][i].tmp, Err(WritersOf(c)[i], "write", c)),
           ![c].errsMu = 0]
    /\ gor' = [gor EXCEPT ![c][i].st = "done", ![c][i].tmp = <<>>]
    /\ UNCHANGED <<heapVars, envVars, mutex, renderOrder, dispatchOrder, exited>>

\* Concurrent write and Close: wg.Wait() returns.
Wait(c) ==
    /\ exited = NoCall
    /\ call[c].pc = "wait"
    /\ WgZero(c)
    /\ call' = [call EXCEPT ![c].pc = AfterLoop(c), ![c].idx = 1]
    /\ UNCHANGED <<heapVars, envVars, mutex, gor, renderOrder, dispatchOrder,
                   exited>>

\* write: l.errorHandler.Handle(err) for the next collected error.
Handle(c) ==
    /\ exited = NoCall
    /\ call[c].pc = "handle"
    /\ call[c].idx <= Len(call[c].errs)
    /\ handled' = Append(handled, call[c].errs[call[c].idx])
    /\ call' = [call EXCEPT ![c].idx = @ + 1]
    /\ UNCHANGED <<heapVars, invoked, running, closes, mutex, gor, renderOrder,
                   dispatchOrder, exited>>

\* write returns: the deferred mutex.Unlock(), and Log returns to its caller.
Unlock(c) ==
    /\ exited = NoCall
    /\ call[c].pc = "handle"
    /\ call[c].idx > Len(call[c].errs)
    /\ mutex' = [mutex EXCEPT ![MutexOf(call[c].target)] = NoCall]
    /\ call' = [call EXCEPT ![c].pc =
           IF call[c].after # "return" THEN "after" ELSE "returned"]
    /\ UNCHANGED <<heapVars, envVars, gor, renderOrder, dispatchOrder, exited>>

\* Fatal, Fatalf: FatalLevel.Exit() after Log has returned.
Exit(c) ==
    /\ exited = NoCall
    /\ call[c].pc = "after" /\ call[c].after = "exit"
    /\ IF ShouldExit(FatalLevel)
       THEN exited' = c /\ UNCHANGED call
       ELSE call' = [call EXCEPT ![c].pc = "returned"] /\ UNCHANGED exited
    /\ UNCHANGED <<heapVars, envVars, mutex, gor, renderOrder, dispatchOrder>>

\* The value Panic and Panicf hand to PanicLevel.Panic.
PanicMessageFull(c) == call[c].full

PanicMessage(c) == call[c].msg

\* Panic, Panicf: PanicLevel.Panic(message) after Log has returned.
DoPanic(c) ==
    /\ exited = NoCall
    /\ call[c].pc = "after" /\ call[c].after = "panic"
    /\ call' = [call EXCEPT
           ![c].pc = IF ShouldPanic(PanicLevel) THEN "panicked" ELSE "returned",
           ![c].panicVal = IF ShouldPanic(PanicLevel) THEN PanicMessage(c) ELSE @]
    /\ UNCHANGED <<heapVars, envVars, mutex, gor, renderOrder, dispatchOrder,
                   exited>>

\* Sequential Close: writer.Close() is invoked on the next writer.
SeqCloseCall(c) ==
    LET w == WritersOf(c)[call[c].idx] IN
    /\ exited = NoCall
    /\ call[c].pc = "loop" /\ IsClose(c)
    /\ closes' = [closes EXCEPT ![w] = Append(@, c)]
    /\ running' = [running EXCEPT ![w] = @ \cup {c}]
    /\ call' = [call EXCEPT ![c].pc = "inwriter"]
    /\ UNCHANGED <<heapVars, invoked, handled, mutex, gor, renderOrder,
                   dispatchOrder, exited>>

\* Sequential Close: the writer's Close returns, with an error or without.
SeqCloseReturn(c, ok) ==
    LET w == WritersOf(c)[call[c].idx]
        last == call[c].idx = Len(WritersOf(c)) IN
    /\ exited = NoCall
    /\ call[c].pc = "inwriter" /\ IsClose(c)
    /\ running' = [running EXCEPT ![w] = @ \ {c}]
    /\ call' = [call EXCEPT
           ![c].pc = IF last THEN AfterLoop(c) ELSE "loop",
           ![c].idx = IF last THEN 1 ELSE @ + 1,
           ![c].errs = IF ok THEN @ ELSE Append(@, Err(w, "close", c)),
           ![c].failed = IF ok THEN @ ELSE @ \cup {w}]
    /\ UNCHANGED <<heapVars, invoked, closes, handled, mutex, gor, renderOrder,
                   dispatchOrder, exited>>

\* Concurrent Close: a goroutine invokes its writer's Close.
GoCloseCall(c, i) ==
    LET w == WritersOf(c)[i] IN
    /\ exited = NoCall
    /\ IsClose(c) /\ gor[c][i].st = "spawned"
    /\ closes' = [closes EXCEPT ![w] = Append(@, c)]
    /\ running' = [running EXCEPT ![w] = @ \cup {c}]
    /\ gor' = [gor EXCEPT ![c][i].st = "inwriter"]
    /\ UNCHANGED <<heapVars, invoked, handled, mutex, call, renderOrder,
                   dispatchOrder, exited>>

\* Concurrent Close: the Close returns.
GoCloseReturn(c, i, ok) ==
    LET w == WritersOf(c)[i] IN
    /\ exited = NoCall
    /\ IsClose(c) /\ gor[c][i].st = "inwriter"
    /\ running' = [running EXCEPT ![w] = @ \ {c}]
    /\ gor' = [gor EXCEPT ![c][i].st = IF ok THEN "done" ELSE "failed"]
    /\ call' = [call EXCEPT ![c].failed = IF ok THEN @ ELSE @ \cup {w}]
    /\ UNCHANGED <<heapVars, invoked, closes, handled, mutex, renderOrder,
                   dispatchOrder, exited>>

\* Concurrent Close: errs = append(errs, err), with no lock around it: the
\* goroutine reads the shared errs ...
GoCloseErrRead(c, i) ==
    /\ exited = NoCall
    /\ IsClose(c) /\ gor[c][i].st = "failed"
    /\ gor' = [gor EXCEPT ![c][i].st = "append", ![c][i].tmp = call[c].errs]
    /\ UNCHANGED <<heapVars, envVars, mutex, call, renderOrder, dispatchOrder,
                   exited>>

\* ... and writes the appended slice back, then wg.Done().
GoCloseErrWrite(c, i) ==
    /\ exited = NoCall
    /\ IsClose(c) /\ gor[c][i].st = "append"
    /\ call' = [call EXCEPT
           ![c].errs = Append(gor[c][i].tmp, Err(WritersOf(c)[i], "close", c))]
    /\ gor' = [gor EXCEPT ![c][i].st = "done", ![c][i].tmp = <<>>]
    /\ UNCHANGED <<heapVars, envVars, mutex, renderOrder, dispatchOrder, exited>>

\* errors.Join(errs...): nil when there is no error, else all of them.
ErrorsJoin(errs) == IF Len(errs) = 0 THEN "nil" ELSE errs

\* Close returns errors.Join(errs...); the deferred mutex.Unlock().
CloseReturn(c) ==
    /\ exited = NoCall
    /\ call[c].pc = "join"
    /\ mutex' = [mutex EXCEPT ![MutexOf(call[c].target)] = NoCall]
    /\ call' = [call EXCEPT ![c].pc = "returned",
                            ![c].ret = ErrorsJoin(call[c].errs)]
    /\ UNCHANGED <<heapVars, envVars, gor, renderOrder, dispatchOrder, exited>>

\* ----------------------------------------- the dispatch specification ----

\* What call c logs: the operands of its Log-style call, and the format and
\* operands of its Logf-style call.
Args(c) == <<StrOp("msg"), IntOp(c)>>

FormatOf(c) == <<"msg", "%v">>

FormatArgs(c) == <<IntOp(c)>>

\* The logger under dispatch: NewFromConfig of a configuration with any
\* level, NumWriters writers, one tag prefix, either dispatch mode, one field
\* and no formatter.
InitConfig(level, concurrency) ==
    Config(level, [i \in WriterIds |-> i], [arr |-> 1, len |-> 1, cap |-> 1],
           concurrency, 1, NilFormatter)

\* The state after NewFromConfig(cfg), the configuration's prefix slice being
\* on heap hp and its fields among maps.
InitLoggerFrom(hp, maps, cfg) ==
    LET default == KeyValueFormatter(<<>>)
        made == NewFromConfig(maps, cfg, default)
    IN /\ arrays = hp
       /\ fmaps = made[1]
       /\ DefaultFieldsFormatter = default
       /\ loggers = <<made[2]>>
       /\ snapshot = <<View(hp, made[1], made[2])>>
       /\ parent = <<0>>
       /\ mutex = <<NoCall>>
       /\ call = [c \in Calls |-> IdleCall]
       /\ gor = [c \in Calls |-> IdleGor]
       /\ invoked = [w \in WriterIds |-> <<>>]
       /\ running = [w \in WriterIds |-> {}]
       /\ closes = [w \in WriterIds |-> <<>>]
       /\ handled = <<>>
       /\ renderOrder = <<>>
       /\ dispatchOrder = <<>>
       /\ exited = NoCall

InitLogger(level, concurrency) ==
    InitLoggerFrom(<< <<WithTag(<<"app">>)>> >>,
                   << [k \in {"user"} |-> <<"john">>] >>,
                   InitConfig(level, concurrency))

Init(level) ==
    \E concurrency \in BOOLEAN :
        InitLogger(level, concurrency) /\ InitCond(Always) /\ InitLib

\* One Logger of level INFO that dispatches sequentially, nothing else done.
InitSequential ==
    InitLogger(InfoLevel, FALSE) /\ InitCond(Always) /\ InitLib

\* A call of one of the Logger's emission methods, or of Close.
CallMethod(c, lg) ==
    \/ \E level \in Levels : Log(c, lg, level, Args(c))
    \/ \E level \in Levels : Logf(c, lg, level, FormatOf(c), FormatArgs(c))
    \/ Trace(c, lg, Args(c))
    \/ Tracef(c, lg, FormatOf(c), FormatArgs(c))
    \/ Debug(c, lg, Args(c))
    \/ Debugf(c, lg, FormatOf(c), FormatArgs(c))
    \/ Info(c, lg, Args(c))
    \/ Infof(c, lg, FormatOf(c), FormatArgs(c))
    \/ Warning(c, lg, Args(c))
    \/ Warningf(c, lg, FormatOf(c), FormatArgs(c))
    \/ Error(c, lg, Args(c))
    \/ Errorf(c, lg, FormatOf(c), FormatArgs(c))
    \/ Fatal(c, lg, Args(c))
    \/ Fatalf(c, lg, FormatOf(c), FormatArgs(c))
    \/ Panic(c, lg, Args(c))
    \/ Panicf(c, lg, FormatOf(c), FormatArgs(c))
    \/ Close(c, lg)

\* A step of a call that is under way.
Step(c) ==
    \/ Render(c)
    \/ Lock(c)
    \/ SeqWriteCall(c)
    \/ \E ok \in BOOLEAN : SeqWriteReturn(c, ok)
    \/ \E i \in WriterIds : GoWriteCall(c, i)
    \/ \E i \in WriterIds, ok \in BOOLEAN : GoWriteReturn(c, i, ok)
    \/ \E i \in WriterIds : GoErrLock(c, i)
    \/ \E i \in WriterIds : GoErrAppend(c, i)
    \/ Wait(c)
    \/ Handle(c)
    \/ Unlock(c)
    \/ Exit(c)
    \/ DoPanic(c)
    \/ SeqCloseCall(c)
    \/ \E ok \in BOOLEAN : SeqCloseReturn(c, ok)
    \/ \E i \in WriterIds : GoCloseCall(c, i)
    \/ \E i \in WriterIds, ok \in BOOLEAN : GoCloseReturn(c, i, ok)
    \/ \E i \in WriterIds : GoCloseErrRead(c, i)
    \/ \E i \in WriterIds : GoCloseErrWrite(c, i)
    \/ CloseReturn(c)

\* One call on a logger of any level, in either dispatch mode.
Next == (\E lg \in LoggerIds : CallMethod(1, lg)) \/ Step(1)

Spec == (\E level \in Levels : Init(level)) /\ [][Next]_vars

\* NumCalls calls, each from a goroutine of its own, on a logger of level
\* INFO, in either dispatch mode.
NextConc ==
    \E c \in Calls : (\E lg \in LoggerIds : CallMethod(c, lg)) \/ Step(c)

SpecConc == Init(InfoLevel) /\ [][NextConc]_vars

\* ------------------------------------------------ dispatch properties ----

\* How often call c invoked writer w's Write, and its Close.
WriteCount(w, c) ==
    Cardinality({i \in 1..Len(invoked[w]) : invoked[w][i].call = c})

CloseCount(w, c) == Cardinality({i \in 1..Len(closes[w]) : closes[w][i] = c})

\* How often the error handler was handed error e.
HandledCount(e) == Cardinality({i \in 1..Len(handled) : handled[i] = e})

IsLog(c) == call[c].kind = "log"

\* Call c's level is at or above the minimum level of its logger.
AtOrAbove(c) == ~(call[c].level < Target(c).level)

\* Log or Logf has returned to the method that called it.
LogReturned(c) == call[c].pc \in {"after", "returned", "panicked"}

\* C1: an emission below the logger's minimum level never invokes a writer's
\* Write; an emission at or above it invokes every configured writer's Write
\* exactly once (never more than once while under way, once when it is over).
C1_LevelGate ==
    \A c \in Calls : IsLog(c) =>
        \A w \in WriterIds :
            /\ ~AtOrAbove(c) => WriteCount(w, c) = 0
            /\ AtOrAbove(c) => /\ WriteCount(w, c) <= 1
                               /\ LogReturned(c) => WriteCount(w, c) = 1

C1_Witness ==
    \E c \in Calls :
        /\ IsLog(c) /\ call[c].pc = "returned"
        /\ call[c].level = Target(c).level
        /\ \A w \in WriterIds : WriteCount(w, c) = 1

\* C2: an emission below the logger's minimum level is a complete no-op for
\* every method: nothing is formatted, no writer is invoked, the process does
\* not exit and the call does not panic.
C2_DisabledNoOp ==
    \A c \in Calls : (IsLog(c) /\ ~AtOrAbove(c)) =>
        /\ call[c].formats = 0
        /\ \A w \in WriterIds : WriteCount(w, c) = 0
        /\ exited # c
        /\ call[c].pc # "panicked"

\* C3: in either dispatch mode, when an enabled emission's write is over
\* every writer was invoked exactly once and the handler was handed exactly
\* one error per failing writer, that writer's, and none for the others; at
\* no time is an error handed over twice or for a writer that did not fail.
C3_ErrorsHandled ==
    \A c \in Calls : (IsLog(c) /\ AtOrAbove(c)) =>
        \A w \in WriterIds :
            /\ HandledCount(Err(w, "write", c))
                   <= (IF w \in call[c].failed THEN 1 ELSE 0)
            /\ LogReturned(c) =>
                   /\ WriteCount(w, c) = 1
                   /\ HandledCount(Err(w, "write", c))
                          = (IF w \in call[c].failed THEN 1 ELSE 0)

C3_Witness ==
    \E c \in Calls :
        /\ IsLog(c) /\ LogReturned(c) /\ Target(c).concurrency
        /\ call[c].failed = WriterIds
        /\ \A w \in WriterIds : HandledCount(Err(w, "write", c)) = 1

\* C4: in concurrent mode no emission call has returned while one of the
\* writer invocations it started is still running.
C4_JoinBarrier ==
    \A c \in Calls :
        (IsLog(c) /\ LogReturned(c) /\ AtOrAbove(c) /\ Target(c).concurrency) =>
            \A i \in WriterIds :
                /\ gor[c][i].st = "done"
                /\ c \notin running[WritersOf(c)[i]]

C4_Witness ==
    \E c \in Calls :
        /\ IsLog(c) /\ call[c].pc = "returned" /\ Target(c).concurrency
        /\ \A w \in WriterIds : WriteCount(w, c) = 1 /\ c \notin running[w]

\* C5: an enabled Fatal/Fatalf call ends in the process exit and an enabled
\* Panic/Panicf call in a panic whose value is the message body alone; exit
\* and panic happen only when every writer was invoked and has returned and
\* every write error was handed to the handler, and the call never returns
\* normally instead, whether or not writers failed.
C5_TerminalAfterDispatch ==
    \A c \in Calls : (IsLog(c) /\ AtOrAbove(c)) =>
        /\ (exited = c \/ call[c].pc = "panicked") =>
               \A w \in WriterIds :
                   /\ WriteCount(w, c) = 1
                   /\ c \notin running[w]
                   /\ HandledCount(Err(w, "write", c))
                          = (IF w \in call[c].failed THEN 1 ELSE 0)
        /\ exited = c => call[c].after = "exit"
        /\ call[c].pc = "panicked" =>
               /\ call[c].after = "panic"
               /\ call[c].panicVal = Sprint(Args(c))
        /\ call[c].after # "return" => call[c].pc # "returned"

C5_Witness ==
    \E c, d \in Calls :
        /\ IsLog(c) /\ call[c].pc = "panicked" /\ call[c].failed # {}
        /\ call[c].panicVal = <<"msg", ToString(c)>>
        /\ IsLog(d) /\ exited = d /\ call[d].failed # {}

\* C6: Logger.Close invokes every writer's Close exactly once, returns nil
\* exactly when no Close failed, and otherwise returns the errors of all the
\* failing writers.
C6_CloseAggregates ==
    \A c \in Calls : (IsClose(c) /\ call[c].pc = "returned") =>
        /\ \A w \in WriterIds : CloseCount(w, c) = 1
        /\ (call[c].ret = "nil") <=> (call[c].failed = {})
        /\ call[c].ret # "nil" =>
               {call[c].ret[i].writer : i \in 1..Len(call[c].ret)}
                   = call[c].failed

\* C7: every error a writer's Close returned during Logger.Close was handed
\* to the error handler, once.
C7_CloseErrorsHandled ==
    \A c \in Calls : (IsClose(c) /\ call[c].pc = "returned") =>
        \A w \in call[c].failed : HandledCount(Err(w, "close", c)) = 1

\* The call is between taking and releasing its logger's mutex.
Dispatching(c) == call[c].pc \in {"loop", "inwriter", "wait", "handle", "join"}

\* Call c has invoked some writer.
Started(c) ==
    \E w \in WriterIds : WriteCount(w, c) > 0 \/ CloseCount(w, c) > 0

\* Every writer got the whole of emission a, and before anything of call b.
WholeBefore(a, b) ==
    \A w \in WriterIds :
        /\ WriteCount(w, a) = 1
        /\ a \notin running[w]
        /\ \A i, j \in 1..Len(invoked[w]) :
               (invoked[w][i].call = a /\ invoked[w][j].call = b) => i < j

\* C8: on one Logger no two calls are dispatching (write or Close) at the
\* same time, no writer runs for two calls at once, and of two emissions
\* that have both reached a writer one reached every writer, whole, before
\* the other reached any.
C8_MutualExclusion ==
    \A a, b \in Calls : a # b =>
        /\ ~(Dispatching(a) /\ Dispatching(b)
             /\ call[a].target = call[b].target)
        /\ \A w, v \in WriterIds : ~(a \in running[w] /\ b \in running[v])
        /\ (IsLog(a) /\ IsLog(b) /\ Started(a) /\ Started(b)) =>
               WholeBefore(a, b) \/ WholeBefore(b, a)

C8_Witness ==
    \E a, b \in Calls :
        /\ a # b /\ IsLog(a) /\ IsLog(b)
        /\ call[a].pc = "returned" /\ call[b].pc = "returned"
        /\ \E i, j \in 1..Len(renderOrder) :
               i < j /\ renderOrder[i] = b /\ renderOrder[j] = a
        /\ WholeBefore(a, b)
        /\ \A w \in WriterIds : Len(invoked[w]) = 2

\* The place of call c in an order of calls.
Place(order, c) == CHOOSE i \in 1..Len(order) : order[i] = c

\* C9: of two emissions on one instance, the one rendered first is the one
\* dispatched first.
C9_RenderThenDispatch ==
    \A i, j \in 1..Len(dispatchOrder) :
        LET a == dispatchOrder[i]
            b == dispatchOrder[j]
        IN (i < j /\ IsLog(a) /\ IsLog(b)) =>
               Place(renderOrder, a) < Place(renderOrder, b)

\* The errors of call c's writes the handler was handed, in order.
HandledOf(c) ==
    SelectSeq(handled, LAMBDA e : e.call = c /\ e.op = "write")

\* C13: in sequential mode the writers are invoked one at a time in the
\* configured order: a writer is invoked only when every writer before it
\* was invoked once and has returned, whether it failed or not, and the
\* handler is handed the errors in the order of their writers.
C13_SequentialOrder ==
    \A c \in Calls : (IsLog(c) /\ AtOrAbove(c) /\ ~Target(c).concurrency) =>
        LET ws == WritersOf(c) IN
        /\ \A k, m \in 1..Len(ws) :
               (k < m /\ WriteCount(ws[m], c) > 0) =>
                   WriteCount(ws[k], c) = 1 /\ c \notin running[ws[k]]
        /\ \A i, j \in 1..Len(HandledOf(c)) :
               i < j => \E k, m \in 1..Len(ws) :
                           /\ k < m
                           /\ HandledOf(c)[i].writer = ws[k]
                           /\ HandledOf(c)[j].writer = ws[m]
        /\ LogReturned(c) =>
               {HandledOf(c)[i].writer : i \in 1..Len(HandledOf(c))}
                   = call[c].failed

C13_Witness ==
    \E c \in Calls :
        /\ IsLog(c) /\ call[c].pc = "returned" /\ ~Target(c).concurrency
        /\ call[c].failed = WriterIds
        /\ \A w \in WriterIds : WriteCount(w, c) = 1
        /\ HandledOf(c) = [k \in 1..NumWriters |->
                               Err(WritersOf(c)[k], "write", c)]

\* C14: in either dispatch mode, when the handler has been handed a write
\* error of an emission, every writer's Write for that emission was invoked
\* and has returned.
C14_HandleAfterAllWrites ==
    \A c \in Calls : (IsLog(c) /\ Len(HandledOf(c)) > 0) =>
        \A k \in 1..Len(WritersOf(c)) :
            /\ WriteCount(WritersOf(c)[k], c) = 1
            /\ c \notin running[WritersOf(c)[k]]
            /\ Target(c).concurrency => gor[c][k].st = "done"

\* The first writer failed, the last did not, and the error is handed over:
\* in sequential and in concurrent mode.
C14_Witness ==
    \E c \in Calls :
        /\ IsLog(c) /\ call[c].pc = "handle"
        /\ call[c].failed = {WritersOf(c)[1]}
        /\ HandledOf(c) = <<Err(WritersOf(c)[1], "write", c)>>
        /\ WriteCount(WritersOf(c)[NumWriters], c) = 1

\* -------------------------------------------------------- derivation ----

\* A faulty Fields.With: the pair is put into the receiver's own map.
FieldsWithInPlace(maps, f, key, value) ==
    <<[maps EXCEPT ![f] = [k \in DOMAIN @ \cup {key} |->
                              IF k = key THEN value ELSE @[k]]],
      f>>

\* A faulty Fields.Copy: the receiver itself is returned.
FieldsCopyAlias(maps, f) == <<maps, f>>

\* Fields.Copy: <<fmaps', the new map>>, a new map with the receiver's pairs.
FieldsCopy(maps, f) == <<Append(maps, maps[f]), Len(maps) + 1>>

\* Fields.With: the copy, with key set to value.
FieldsWith(maps, f, key, value) ==
    LET cp == FieldsCopy(maps, f) IN
    <<[cp[1] EXCEPT ![cp[2]] = [k \in DOMAIN @ \cup {key} |->
                                   IF k = key THEN value ELSE @[k]]],
      cp[2]>>

\* Fields.WithFields: the copy, with every pair of the argument set.
FieldsWithFields(maps, f, other) ==
    LET cp == FieldsCopy(maps, f) IN
    <<[cp[1] EXCEPT ![cp[2]] = [k \in DOMAIN @ \cup DOMAIN other |->
                                   IF k \in DOMAIN other THEN other[k]
                                   ELSE @[k]]],
      cp[2]>>

\* The number of loggers derived so far stays within the bound.
MayDerive == Len(loggers) <= MaxDerive

\* The new Logger struct a derivation returns joins the instances, with a
\* mutex of its own; hp and maps are the heaps the derivation left.
AddLogger(r, hp, maps, child) ==
    /\ r \in DOMAIN loggers
    /\ MayDerive
    /\ arrays' = hp
    /\ fmaps' = maps
    /\ loggers' = Append(loggers, child)
    /\ mutex' = Append(mutex, NoCall)
    /\ snapshot' = Append(snapshot, View(hp, maps, child))
    /\ parent' = Append(parent, r)
    /\ UNCHANGED <<DefaultFieldsFormatter, call, gor, envVars, renderOrder,
                   dispatchOrder, exited, condVars, libVars>>

\* Logger.WithTemporaryPrefix(builder...) on logger r.
WithTemporaryPrefix(r, builder) ==
    LET l == loggers[r]
        ap == GoAppend(arrays, l.prefixes, builder)
        cp == FieldsCopy(fmaps, l.fields)
    IN AddLogger(r, ap[1], cp[1],
                 [l EXCEPT !.prefixes = ap[2], !.fields = cp[2]])

\* Logger.WithField(key, value) on logger r.
WithField(r, key, value) ==
    LET l == loggers[r]
        fw == FieldsWith(fmaps, l.fields, key, value)
    IN AddLogger(r, arrays, fw[1], [l EXCEPT !.fields = fw[2]])

\* Logger.WithFields(fields) on logger r.
WithFields(r, fields) ==
    LET l == loggers[r]
        fw == FieldsWithFields(fmaps, l.fields, fields)
    IN AddLogger(r, arrays, fw[1], [l EXCEPT !.fields = fw[2]])

\* Logger.WithFieldsFormatter(formatter) on logger r.
WithFieldsFormatter(r, formatter) ==
    LET l == loggers[r]
        cp == FieldsCopy(fmaps, l.fields)
    IN AddLogger(r, arrays, cp[1],
                 [l EXCEPT !.fields = cp[2], !.fieldsFormatter = formatter])

WithJSON(r) == WithFieldsFormatter(r, JSONFormatter)

WithLogfmt(r) == WithFieldsFormatter(r, LogfmtFormatter)

WithKeyValue(r) == WithFieldsFormatter(r, KeyValueFormatter(<<>>))

WithKeyValueSeparator(r, separator) ==
    WithFieldsFormatter(r, KeyValueFormatter(separator))

\* --------------------------------------- the derivation specification ----

\* The prefix slice of the configuration the first logger is made from: one
\* tag, in an array with or without room after it.
InitPrefixCaps == {1, 2}

\* The builders, fields and separators the derivations are called with.
BuilderLists == {<<>>, <<WithTag(<<"req">>)>>, <<WithLogLevel(ErrorLevel)>>}

FieldValues == {<<"7">>}

FieldMaps == {[k \in {"id", "user"} |-> <<"ann">>]}

Separators == {<<" | ">>}

InitDerive ==
    \E pcap \in InitPrefixCaps :
        LET hp == << [j \in 1..pcap |->
                         IF j = 1 THEN WithTag(<<"app">>) ELSE NilCell] >>
            maps == << [k \in {"user"} |-> <<"john">>] >>
            default == KeyValueFormatter(<<>>)
            cfg == Config(InfoLevel, [i \in WriterIds |-> i],
                          [arr |-> 1, len |-> 1, cap |-> pcap], FALSE, 1,
                          NilFormatter)
            made == NewFromConfig(maps, cfg, default)
        IN /\ arrays = hp
           /\ fmaps = made[1]
           /\ DefaultFieldsFormatter = default
           /\ loggers = <<made[2]>>
           /\ snapshot = <<View(hp, made[1], made[2])>>
           /\ parent = <<0>>
           /\ mutex = <<NoCall>>
           /\ call = [c \in Calls |-> IdleCall]
           /\ gor = [c \in Calls |-> IdleGor]
           /\ invoked = [w \in WriterIds |-> <<>>]
           /\ running = [w \in WriterIds |-> {}]
           /\ closes = [w \in WriterIds |-> <<>>]
           /\ handled = <<>>
           /\ renderOrder = <<>>
           /\ dispatchOrder = <<>>
           /\ exited = NoCall
           /\ InitCond(Always) /\ InitLib

\* A derivation from any of the loggers there are.
NextDerive ==
    \E r \in LoggerIds :
        \/ \E builder \in BuilderLists : WithTemporaryPrefix(r, builder)
        \/ \E key \in Keys, value \in FieldValues : WithField(r, key, value)
        \/ \E fields \in FieldMaps : WithFields(r, fields)
        \/ \E formatter \in {LogfmtFormatter} : WithFieldsFormatter(r, formatter)
        \/ WithJSON(r)
        \/ WithLogfmt(r)
        \/ WithKeyValue(r)
        \/ \E separator \in Separators : WithKeyValueSeparator(r, separator)

SpecDerive == InitDerive /\ [][NextDerive]_vars

\* ---------------------------------------------- derivation properties ----

\* C10: no derivation changes its receiver: after the step the receiver's
\* level, writers, prefixes, fields, formatter and rendered message are what
\* they were before it; and the first logger, from which all others descend,
\* is at all times what it was when it was constructed.
C10_ReceiverUnchanged ==
    [][Len(loggers') > Len(loggers) =>
           LET r == parent'[Len(loggers')] IN
           /\ View(arrays', fmaps', loggers'[r]) = View(arrays, fmaps, loggers[r])
           /\ View(arrays', fmaps', loggers'[1]) = snapshot[1]]_vars

C10_Witness ==
    /\ Len(loggers) = 4
    /\ parent[2] = 1 /\ parent[3] = 1 /\ parent[4] = 2
    /\ Len(snapshot[2].prefixes) > Len(snapshot[1].prefixes)
    /\ DOMAIN snapshot[4].fields # DOMAIN snapshot[1].fields
    /\ snapshot[3].fieldsFormatter # snapshot[1].fieldsFormatter
    /\ View(arrays, fmaps, loggers[1]) = snapshot[1]
    /\ View(arrays, fmaps, loggers[2]) = snapshot[2]

\* C11: every logger's prefix sequence is at all times what it was when the
\* logger was derived (its parent's prefixes followed by its own builders),
\* whatever was derived from the same parent afterwards.
C11_SiblingPrefixesKept ==
    \A i \in DOMAIN loggers :
        Elems(arrays, loggers[i].prefixes) = snapshot[i].prefixes

\* ------------------------------- loggers that share their writers ----

\* A step of an emission that is under way, on writers that do not fail.
WriteStep(c) ==
    \/ Render(c)
    \/ Lock(c)
    \/ SeqWriteCall(c)
    \/ SeqWriteReturn(c, TRUE)
    \/ \E i \in WriterIds : GoWriteCall(c, i)
    \/ \E i \in WriterIds : GoWriteReturn(c, i, TRUE)
    \/ Wait(c)
    \/ Unlock(c)

\* Loggers are derived by WithField, and NumCalls goroutines log on any of the
\* loggers there are; a derived logger has its parent's writers.
NextShared ==
    \/ \E r \in LoggerIds, value \in FieldValues : WithField(r, "id", value)
    \/ \E c \in Calls, lg \in LoggerIds : Info(c, lg, Args(c))
    \/ \E c \in Calls : WriteStep(c)

SpecShared == Init(InfoLevel) /\ [][NextShared]_vars

\* C12: a Logger's mutex is held only by a call on that very instance, and
\* two emissions that are inside one writer's Write at the same time are on
\* different instances: the Logger layer orders emissions per instance only.
C12_PerInstanceMutex ==
    /\ Len(mutex) = Len(loggers)
    /\ \A lg \in DOMAIN mutex :
           mutex[lg] # NoCall =>
               call[mutex[lg]].target = lg /\ Dispatching(mutex[lg])
    /\ \A w \in WriterIds : \A a, b \in running[w] :
           a # b => call[a].target # call[b].target

\* Emissions on a parent and on the logger derived from it are both inside
\* the writer they share.
C12_Witness ==
    \E w \in WriterIds : \E a, b \in running[w] :
        /\ IsLog(a) /\ IsLog(b)
        /\ parent[call[b].target] = call[a].target
        /\ mutex[call[a].target] = a /\ mutex[call[b].target] = b
        /\ w \in {loggers[call[a].target].writers[i] : i \in WriterIds}
        /\ w \in {loggers[call[b].target].writers[i] : i \in WriterIds}

\* ------------------------------------------- calling a condition ----

loggerVars == <<loggers, arrays, fmaps, DefaultFieldsFormatter, snapshot,
                parent, mutex, call, gor, envVars, renderOrder, dispatchOrder,
                exited, libVars>>

\* The condition at a place of cond.
LeafAt(i) == IF i = 0 THEN cond ELSE cond.subs[i]

IsStateful(x) == x.kind \in {"count", "rate", "sample"}

\* mu.Lock() in a closure returns only when no caller holds mu.
CondMuFreeAlways(i) == TRUE

CondMuFree(i) == cstate[i].mu = 0

\* RateLimit: now.Sub(lastReset) >= time.Second.
WindowElapsedLate(now, lastReset) == now - lastReset > Second

WindowElapsed(now, lastReset) == now - lastReset >= Second

\* SampleEveryN: count%n == 1.
SampleHitLast(count, n) == count % n = 0

SampleHit(count, n) == count % n = 1

\* And stops at the first false operand, Or at the first true one.
ShortCircuitsNever(kind, r) == FALSE

ShortCircuits(kind, r) == (kind = "and" /\ ~r) \/ (kind = "or" /\ r)

\* The bodies of the closures, on the captured variables st as they were
\* read: <<the variables as they are written, the value returned>>.
CountBasedBody(st, maxCount) ==
    IF st.count < maxCount
    THEN <<[st EXCEPT !.count = @ + 1], TRUE>>
    ELSE <<st, FALSE>>

RateLimitBody(st, now, maxPerSecond) ==
    LET r == IF WindowElapsed(now, st.lastReset)
             THEN [lastReset |-> now, count |-> 0]
             ELSE st
    IN IF r.count < maxPerSecond
       THEN <<[r EXCEPT !.count = @ + 1], TRUE>>
       ELSE <<r, FALSE>>

SampleEveryNBody(st, n) ==
    <<[st EXCEPT !.count = @ + 1], SampleHit(st.count + 1, n)>>

\* The calls of cond made so far.
CondCalls ==
    Len(results) + Cardinality({c \in Calls : ev[c].pc # "idle"})

\* The operand at place i returned r to caller c: the condition at place 0
\* returns it; And and Or return or go on to the next operand.
OperandReturns(c, i, r) ==
    LET tr == Append(ev[c].trace, [place |-> i, value |-> r])
        Return(v) ==
            /\ ev' = [ev EXCEPT ![c] = IdleEval]
            /\ results' = Append(results,
                                 [caller |-> c, value |-> v, trace |-> tr])
    IN IF i = 0 \/ ShortCircuits(cond.kind, r) THEN Return(r)
       ELSE IF i = Len(cond.subs) THEN Return(cond.kind = "and")
       ELSE /\ ev' = [ev EXCEPT ![c].pc = "eval", ![c].idx = i + 1,
                                ![c].trace = tr, ![c].now = ZeroTime]
            /\ UNCHANGED results

\* Caller c calls cond.  And and Or of no operands return at once.
CondCall(c) ==
    /\ ev[c].pc = "idle"
    /\ CondCalls < MaxCondCalls
    /\ IF cond.kind \in {"and", "or"}
       THEN IF Len(cond.subs) = 0
            THEN /\ results' = Append(results,
                                      [caller |-> c, value |-> cond.kind = "and",
                                       trace |-> <<>>])
                 /\ UNCHANGED ev
            ELSE /\ ev' = [ev EXCEPT ![c].pc = "eval", ![c].idx = 1]
                 /\ UNCHANGED results
       ELSE /\ ev' = [ev EXCEPT ![c].pc = "eval", ![c].idx = 0]
            /\ UNCHANGED results
    /\ UNCHANGED <<loggerVars, cond, cstate, clock, history>>

\* Always's and Never's closures.
ConstCall(c) ==
    LET i == ev[c].idx
        r == LeafAt(i).kind = "always" IN
    /\ ev[c].pc = "eval"
    /\ LeafAt(i).kind \in {"always", "never"}
    /\ history' = [history EXCEPT ![i] =
                       Append(@, [caller |-> c, value |-> r, time |-> ZeroTime])]
    /\ OperandReturns(c, i, r)
    /\ UNCHANGED <<loggerVars, cond, cstate, clock>>

\* A closure with state: mu.Lock(); the captured variables are read, and
\* RateLimit reads the clock.
CondLock(c) ==
    LET i == ev[c].idx IN
    /\ ev[c].pc = "eval"
    /\ IsStateful(LeafAt(i))
    /\ CondMuFree(i)
    /\ cstate' = [cstate EXCEPT ![i].mu = c]
    /\ ev' = [ev EXCEPT
           ![c].pc = "locked",
           ![c].tmp = [count |-> cstate[i].count,
                       lastReset |-> cstate[i].lastReset],
           ![c].now = IF LeafAt(i).kind = "rate" THEN clock ELSE ZeroTime]
    /\ UNCHANGED <<loggerVars, cond, clock, history, results>>

\* ... the body runs, the variables are written, and the deferred
\* mu.Unlock() runs as the closure returns.
CondBody(c) ==
    LET i == ev[c].idx
        x == LeafAt(i)
        out == CASE x.kind = "count" -> CountBasedBody(ev[c].tmp, x.arg)
                 [] x.kind = "rate" ->
                        RateLimitBody(ev[c].tmp, ev[c].now, x.arg)
                 [] x.kind = "sample" -> SampleEveryNBody(ev[c].tmp, x.arg)
    IN
    /\ ev[c].pc = "locked"
    /\ cstate' = [cstate EXCEPT ![i] = [mu |-> 0, count |-> out[1].count,
                                        lastReset |-> out[1].lastReset]]
    /\ history' = [history EXCEPT ![i] =
                       Append(@, [caller |-> c, value |-> out[2],
                                  time |-> ev[c].now])]
    /\ OperandReturns(c, i, out[2])
    /\ UNCHANGED <<loggerVars, cond, clock>>

\* Time passes.
Tick ==
    /\ clock < StartTime + MaxTicks
    /\ clock' = clock + 1
    /\ UNCHANGED <<loggerVars, cond, cstate, ev, history, results>>

\* The conditions called: the stateful ones with arguments around their
\* thresholds, and And, Or, All and Any of no operands and of a constant or
\* stateful operand followed by a stateful one.
CountArgs == -1..2

OperandLists ==
    {<<>>,
     <<Never, CountBased(1)>>, <<Always, CountBased(1)>>,
     <<Never, SampleEveryN(2)>>, <<Always, SampleEveryN(2)>>,
     <<CountBased(1), RateLimit(1)>>}

CondInputs ==
    {CountBased(k) : k \in CountArgs}
        \cup {RateLimit(m) : m \in CountArgs}
        \cup {SampleEveryN(n) : n \in 0..3}
        \cup {And(s) : s \in OperandLists} \cup {Or(s) : s \in OperandLists}
        \cup {All(s) : s \in OperandLists} \cup {AnyOf(s) : s \in OperandLists}

InitCalls ==
    /\ InitLogger(InfoLevel, FALSE)
    /\ \E c0 \in CondInputs : InitCond(c0)
    /\ InitLib

NextCalls ==
    \/ \E c \in Calls : CondCall(c) \/ ConstCall(c) \/ CondLock(c) \/ CondBody(c)
    \/ Tick

SpecCalls == InitCalls /\ [][NextCalls]_vars

\* ---------------------------------------------- condition properties ----

\* The places of cond that are called: its operands, or itself.
UsedPlaces ==
    IF cond.kind \in {"and", "or"} THEN 1..Len(cond.subs) ELSE {0}

\* How many of the first n calls at place i returned true.
Trues(i, n) == Cardinality({j \in 1..n : history[i][j].value})

Min(a, b) == IF a < b THEN a ELSE b

\* C15: of the calls a CountBased(k) condition got, from whatever callers,
\* the first k in lock order returned true and all later ones false, so
\* min(k, calls) returned true, and none when k <= 0.
C15_CountBased ==
    \A i \in UsedPlaces : LeafAt(i).kind = "count" =>
        LET k == LeafAt(i).arg
            n == Len(history[i]) IN
        /\ \A j \in 1..n : history[i][j].value <=> (j <= k)
        /\ Trues(i, n) = (IF k <= 0 THEN 0 ELSE Min(k, n))

C15_Witness ==
    /\ cond = CountBased(2)
    /\ Len(history[0]) = MaxCondCalls
    /\ {history[0][j].caller : j \in 1..2} = Calls
    /\ Trues(0, MaxCondCalls) = 2
    /\ results[3].value = FALSE

\* Which of the first j calls in h was the last to reset the window: the
\* first call ever, or a later one that read a time at least a second after
\* the time the resetting call before it read.
RECURSIVE LastResetAt(_, _)
LastResetAt(h, j) ==
    IF j = 1 THEN 1
    ELSE LET p == LastResetAt(h, j - 1) IN
         IF h[j].time - h[p].time >= Second THEN j ELSE p

\* C16: of the calls a RateLimit(m) condition with m > 0 got, the first, and
\* every one at least a second after the last reset, reset the window and
\* returned true; from a reset on, up to the next, the first m calls in lock
\* order (the resetting one included) returned true and the others false.
\* RateLimit(m) with m <= 0 is Never, whose calls all return false.
C16_RateLimit ==
    /\ \A m \in CountArgs : m <= 0 => RateLimit(m) = Never
    /\ \A i \in UsedPlaces :
           LET h == history[i]
               m == LeafAt(i).arg IN
           /\ LeafAt(i).kind = "never" => \A j \in 1..Len(h) : ~h[j].value
           /\ LeafAt(i).kind = "rate" =>
                  /\ m > 0
                  /\ \A j \in 1..Len(h) :
                         LET p == LastResetAt(h, j) IN
                         /\ h[j].value <=> (j - p + 1 <= m)
                         /\ p = j => h[j].value
                  /\ (Len(h) > 0 /\ cstate[i].mu = 0) =>
                         cstate[i].lastReset = h[LastResetAt(h, Len(h))].time

\* Two calls pass, the third in the same window does not, and a call a
\* second later passes again; the callers alternate.
C16_Witness ==
    /\ cond = RateLimit(2)
    /\ Len(history[0]) = 4
    /\ [j \in 1..4 |-> history[0][j].value] = <<TRUE, TRUE, FALSE, TRUE>>
    /\ history[0][1].caller # history[0][2].caller
    /\ history[0][3].time - history[0][1].time < Second
    /\ history[0][4].time - history[0][1].time >= Second

\* C17: among the calls of a RateLimit(m) condition that read times less
\* than a second apart, at most m returned true.
C17_AtMostPerSecond ==
    \A i \in UsedPlaces : LeafAt(i).kind = "rate" =>
        LET h == history[i] IN
        \A a, b \in 1..Len(h) :
            (a <= b /\ h[b].time - h[a].time < Second) =>
                Cardinality({j \in a..b : h[j].value}) <= LeafAt(i).arg

\* C18: the i-th call a SampleEveryN(n) condition with n >= 2 got, counted
\* in lock order over all callers, returned true exactly when i mod n = 1,
\* so of k calls the smallest whole number at or above k/n returned true.
\* SampleEveryN(n) with n <= 1 is Always, whose calls all return true.
C18_SampleEveryN ==
    /\ \A n \in 0..1 : SampleEveryN(n) = Always
    /\ \A i \in UsedPlaces :
           LET h == history[i]
               n == LeafAt(i).arg IN
           /\ LeafAt(i).kind = "always" => \A j \in 1..Len(h) : h[j].value
           /\ LeafAt(i).kind = "sample" =>
                  /\ n >= 2
                  /\ \A j \in 1..Len(h) : h[j].value <=> (j % n = 1)
                  /\ Trues(i, Len(h)) = (Len(h) + n - 1) \div n

C18_Witness ==
    /\ cond = SampleEveryN(3)
    /\ Len(history[0]) = 4
    /\ [j \in 1..4 |-> history[0][j].value] = <<TRUE, FALSE, FALSE, TRUE>>
    /\ {history[0][j].caller : j \in 1..4} = Calls

\* How many evaluations of cond, returned or under way, called the operand
\* at place i.
Reached(i) ==
    Cardinality({r \in 1..Len(results) : Len(results[r].trace) >= i})
        + Cardinality({c \in Calls : Len(ev[c].trace) >= i})

\* C19: an evaluation of And called its operands from the left, each after
\* the one before it returned true, and returned false at the first that
\* returned false, else true; Or likewise with true and false exchanged; an
\* operand after the deciding one was not called, so its closure got only
\* the calls of the evaluations that reached it and its counter counts only
\* those; And() returns true and Or() false; All is And and Any is Or.
C19_ShortCircuit ==
    /\ \A s \in OperandLists : All(s) = And(s) /\ AnyOf(s) = Or(s)
    /\ cond.kind \in {"and", "or"} =>
           LET go == cond.kind = "and"
               n == Len(cond.subs) IN
           /\ \A r \in 1..Len(results) :
                  LET tr == results[r].trace IN
                  /\ Len(tr) <= n
                  /\ n > 0 => Len(tr) > 0
                  /\ \A q \in 1..Len(tr) :
                         /\ tr[q].place = q
                         /\ q < Len(tr) => tr[q].value = go
                  /\ results[r].value =
                         IF Len(tr) = 0 THEN go ELSE tr[Len(tr)].value
                  /\ (Len(tr) > 0 /\ Len(tr) < n) => tr[Len(tr)].value # go
           /\ \A i \in 1..n :
                  /\ Len(history[i]) = Reached(i)
                  /\ (cond.subs[i].kind = "sample" /\ cstate[i].mu = 0) =>
                         cstate[i].count = Reached(i)
                  /\ (cond.subs[i].kind = "count" /\ cstate[i].mu = 0) =>
                         cstate[i].count = Min(cond.subs[i].arg, Reached(i))

\* And of Never and a counting condition returned false every time and the
\* counting condition was never called.
C19_Witness ==
    /\ cond = And(<<Never, CountBased(1)>>)
    /\ Len(results) = MaxCondCalls
    /\ \A r \in 1..Len(results) : ~results[r].value
    /\ Len(history[1]) = MaxCondCalls
    /\ history[2] = <<>>
    /\ cstate[2].count = 0

\* ------------------------------------------ the rendering specification ----

\* The loggers rendered: with no prefix, a tag, a tag and a level, a tag that
\* is the empty string, or such a tag and another; with no field or two; with the default
\* formatter, JSON, a separator, or a formatter of the caller's that returns
\* the empty string.
PrefixLists ==
    {<<>>, <<WithTag(<<"app">>)>>,
     <<WithTag(<<"app">>), WithLogLevel(ErrorLevel)>>, <<WithTag(<<>>)>>,
     <<WithTag(<<>>), WithTag(<<"app">>)>>}

RenderFields == {EmptyFields, [k \in {"id", "user"} |-> <<"ann">>]}

RenderFormatters ==
    {NilFormatter, JSONFormatter, KeyValueFormatter(<<" | ">>),
     CustomFormatter(<<>>)}

\* The operands logged: none, or a string and a number.
RenderArgs == {<<>>, <<StrOp("msg"), IntOp(1)>>}

InitRender ==
    \E pre \in PrefixLists, fs \in RenderFields, fm \in RenderFormatters,
       concurrency \in BOOLEAN :
        /\ InitLoggerFrom(IF pre = <<>> THEN <<>> ELSE <<pre>>,
                          IF fs = EmptyFields THEN <<>> ELSE <<fs>>,
                          Config(TraceLevel, [i \in WriterIds |-> i],
                                 IF pre = <<>> THEN NilSlice
                                 ELSE [arr |-> 1, len |-> Len(pre),
                                       cap |-> Len(pre)],
                                 concurrency,
                                 IF fs = EmptyFields THEN 0 ELSE 1, fm))
        /\ InitCond(Always) /\ InitLib

\* One emission, of any level, on writers that do not fail.
NextRender ==
    \/ \E lg \in LoggerIds, level \in Levels, args \in RenderArgs :
           Log(1, lg, level, args)
    \/ WriteStep(1)

SpecRender == InitRender /\ [][NextRender]_vars

\* A segment after the level name: one space, then its text.
Segment(text) == <<" ">> \o text

\* C20: what an enabled emission rendered, and handed to every writer it
\* invoked, is the level name, then a space and the joined prefixes if that
\* string is not empty, then a space and the formatted fields if there are
\* fields and their rendering is not empty, then a space and the message
\* body, and nothing else.
C20_RenderedLayout ==
    \A c \in Calls :
        (IsLog(c) /\ AtOrAbove(c) /\ call[c].pc \notin {"idle", "render"}) =>
            LET l == Target(c)
                prefixStr == BuildPrefixStr(arrays, l)
                fieldsStr == Format(l.fieldsFormatter, fmaps[l.fields])
                layout ==
                    LevelString(call[c].level)
                    \o (IF prefixStr # <<>> THEN Segment(prefixStr) ELSE <<>>)
                    \o (IF DOMAIN fmaps[l.fields] # {} /\ fieldsStr # <<>>
                        THEN Segment(fieldsStr) ELSE <<>>)
                    \o Segment(call[c].msg)
            IN /\ call[c].full = layout
               /\ \A w \in WriterIds : \A i \in 1..Len(invoked[w]) :
                      invoked[w][i].call = c => invoked[w][i].bytes = layout

\* A logger whose only prefix is the empty string and whose fields render as
\* the empty string wrote the level name, one space and the message.
C20_Witness ==
    \E c \in Calls :
        /\ IsLog(c) /\ call[c].pc = "returned"
        /\ Len(Elems(arrays, Target(c).prefixes)) = 1
        /\ BuildPrefixStr(arrays, Target(c)) = <<>>
        /\ DOMAIN fmaps[Target(c).fields] = {"id", "user"}
        /\ Target(c).fieldsFormatter = CustomFormatter(<<>>)
        /\ call[c].full = <<"WARNING", " ", "msg", "1">>
        /\ \A w \in WriterIds : Len(invoked[w]) = 1

\* The prefix strings that are not empty, in the builders' order.
NonEmptyPrefixes(hp, l) ==
    SelectSeq([i \in 1..Len(Elems(hp, l.prefixes)) |->
                  CallPrefix(Elems(hp, l.prefixes)[i])],
              LAMBDA text : text # <<>>)

\* C21: the prefix segment of a rendered message is the strings of the
\* logger's prefix builders in their order, those that are the empty string
\* left out, joined by one space.
C21_EmptyPrefixesDropped ==
    \A c \in Calls :
        (IsLog(c) /\ AtOrAbove(c) /\ call[c].pc \notin {"idle", "render"}) =>
            LET l == Target(c)
                prefixStr == Join(NonEmptyPrefixes(arrays, l), <<" ">>)
                fieldsStr == Format(l.fieldsFormatter, fmaps[l.fields])
            IN call[c].full =
                   LevelString(call[c].level)
                   \o (IF prefixStr # <<>> THEN Segment(prefixStr) ELSE <<>>)
                   \o (IF DOMAIN fmaps[l.fields] # {} /\ fieldsStr # <<>>
                       THEN Segment(fieldsStr) ELSE <<>>)
                   \o Segment(call[c].msg)

\* ------------------------------------------------ Fields mappings ----

\* An operation on a Fields mapping leaves maps as the heap of mappings.
FieldOp(op, recv, key, value, other, maps, result) ==
    /\ lastOp.n < MaxFieldOps
    /\ fmaps' = maps
    /\ lastOp' = [n |-> lastOp.n + 1, op |-> op, recv |-> recv, key |-> key,
                  value |-> value, other |-> other, result |-> result,
                  err |-> "nil"]
    /\ UNCHANGED <<loggers, arrays, DefaultFieldsFormatter, snapshot, parent,
                   mutex, call, gor, envVars, renderOrder, dispatchOrder,
                   exited, condVars, files, ctxs, stdout>>

\* f.Copy(), f.With(key, value) and f.WithFields(o) on mappings of the heap.
CallCopy(f) ==
    /\ f \in DOMAIN fmaps
    /\ LET cp == FieldsCopy(fmaps, f) IN
       FieldOp("Copy", f, "", <<>>, 0, cp[1], cp[2])

CallWith(f, key, value) ==
    /\ f \in DOMAIN fmaps
    /\ LET fw == FieldsWith(fmaps, f, key, value) IN
       FieldOp("With", f, key, value, 0, fw[1], fw[2])

CallWithFields(f, o) ==
    /\ f \in DOMAIN fmaps /\ o \in DOMAIN fmaps
    /\ LET fw == FieldsWithFields(fmaps, f, fmaps[o]) IN
       FieldOp("WithFields", f, "", <<>>, o, fw[1], fw[2])

\* Logger.GetFields.
GetFields(lg) ==
    /\ lg \in DOMAIN loggers
    /\ LET cp == FieldsCopy(fmaps, loggers[lg].fields) IN
       FieldOp("GetFields", loggers[lg].fields, "", <<>>, 0, cp[1], cp[2])

\* The code that holds a mapping changes it: f[key] = value, delete(f, key).
SetKey(f, key, value) ==
    /\ f \in DOMAIN fmaps
    /\ FieldOp("Set", f, key, value, 0,
               [fmaps EXCEPT ![f] = [k \in DOMAIN @ \cup {key} |->
                                        IF k = key THEN value ELSE @[k]]], f)

DeleteKey(f, key) ==
    /\ f \in DOMAIN fmaps
    /\ FieldOp("Delete", f, key, <<>>, 0,
               [fmaps EXCEPT ![f] = [k \in DOMAIN @ \ {key} |-> @[k]]], f)

\* The mappings there can be, and the keys operated on.
MapIds == 1..(MaxFieldOps + 1)

OpKeys == {"id", "user"}

NextFields ==
    \/ \E f \in MapIds : CallCopy(f)
    \/ \E f \in MapIds, key \in OpKeys, value \in FieldValues :
           CallWith(f, key, value)
    \/ \E f \in MapIds, o \in MapIds : CallWithFields(f, o)
    \/ \E lg \in LoggerIds : GetFields(lg)
    \/ \E f \in MapIds, key \in OpKeys, value \in FieldValues :
           SetKey(f, key, value)
    \/ \E f \in MapIds, key \in OpKeys : DeleteKey(f, key)

SpecFields ==
    /\ InitSequential
    /\ [][NextFields]_vars

NumFiles == 2

MaxFileOps == 5

\* What w.file is: nil, or an *os.File that is open or was closed.  nclose
\* counts the Close calls the writer got.
OpenFile == [file |-> "open", data |-> <<>>, nclose |-> 0]

\* os.File.Write and os.File.Close on a file the file system holds without
\* failing: <<the file, count, err>>.  On a closed file both return
\* os.ErrClosed and do nothing.
OsWrite(f, bytes) ==
    IF f.file = "closed" THEN <<f, 0, "file already closed">>
    ELSE <<[f EXCEPT !.data = @ \o bytes], Len(bytes), "nil">>

OsClose(f) ==
    IF f.file = "closed" THEN <<f, 0, "file already closed">>
    ELSE <<[f EXCEPT !.file = "closed"], 0, "nil">>

\* A faulty Write: the file is written whether it is open or not.
FileWriteAnyway(f, bytes) ==
    <<[f EXCEPT !.data = @ \o bytes], Len(bytes), "nil">>

\* FileLogWriter.Write: <<the writer, count, err>>.  file.Sync() of a file
\* that took the write returns nil.
FileWrite(f, bytes) ==
    IF f.file = "nil" THEN <<f, 0, "file does not exist">>
    ELSE LET wr == OsWrite(f, bytes) IN
         IF wr[3] # "nil" THEN <<wr[1], 0, wr[3]>> ELSE wr

\* FileLogWriter.Close: w.file stays what it was, the file is closed.
FileClose(f) ==
    IF f.file = "nil" THEN <<f, 0, "file does not exist">>
    ELSE OsClose(f)

\* An operation on FileLogWriter w that leaves it as res[1] and returns
\* (res[2], res[3]).
FileOp(op, w, bytes, res) ==
    /\ lastOp.n < MaxFileOps
    /\ files' = IF w \in DOMAIN files
                THEN [files EXCEPT ![w] = [res[1] EXCEPT !.nclose =
                          IF op = "Close" THEN @ + 1 ELSE @]]
                ELSE IF res[3] = "nil" THEN Append(files, res[1]) ELSE files
    /\ lastOp' = [n |-> lastOp.n + 1, op |-> op, recv |-> w, key |-> "",
                  value |-> bytes, other |-> 0, result |-> res[2],
                  err |-> res[3]]
    /\ UNCHANGED <<loggers, arrays, fmaps, DefaultFieldsFormatter, snapshot,
                   parent, mutex, call, gor, envVars, renderOrder,
                   dispatchOrder, exited, condVars, ctxs, stdout>>

\* NewFileLogWriter: os.OpenFile opens the file or fails.
NewFileLogWriter(opened) ==
    /\ Len(files) < NumFiles
    /\ FileOp("NewFileLogWriter", Len(files) + 1, <<>>,
              IF opened THEN <<OpenFile, 0, "nil">>
              ELSE <<OpenFile, 0, "open failed">>)

WriterWrite(w, bytes) ==
    /\ w \in DOMAIN files
    /\ FileOp("Write", w, bytes, FileWrite(files[w], bytes))

WriterClose(w) ==
    /\ w \in DOMAIN files
    /\ FileOp("Close", w, <<>>, FileClose(files[w]))

\* The decimal numeral fmt prints for a byte.
ByteCode == [a |-> "97", b |-> "98", c |-> "99"]

\* fmt.Println(bytes) of a []byte: the bytes as decimal numbers between
\* brackets, a space between two of them, and a newline.
Println(bytes) ==
    <<"[">> \o Join([i \in 1..Len(bytes) |-> <<ByteCode[bytes[i]]>>], <<" ">>)
            \o <<"]", "\n">>

\* StdOutLogWriter.Write and StdOutLogWriter.Close.
StdOutWrite(bytes) ==
    /\ lastOp.n < MaxFileOps
    /\ stdout' = stdout \o Println(bytes)
    /\ lastOp' = [NoOp EXCEPT !.n = lastOp.n + 1, !.op = "StdOutWrite",
                              !.value = bytes, !.result = Len(bytes)]
    /\ UNCHANGED <<loggers, arrays, fmaps, DefaultFieldsFormatter, snapshot,
                   parent, mutex, call, gor, envVars, renderOrder,
                   dispatchOrder, exited, condVars, files, ctxs>>

StdOutClose ==
    /\ lastOp.n < MaxFileOps
    /\ lastOp' = [NoOp EXCEPT !.n = lastOp.n + 1, !.op = "StdOutClose"]
    /\ UNCHANGED <<loggers, arrays, fmaps, DefaultFieldsFormatter, snapshot,
                   parent, mutex, call, gor, envVars, renderOrder,
                   dispatchOrder, exited, condVars, files, ctxs, stdout>>

FileIds == 1..NumFiles

Payloads == {<<"a">>, <<"b", "c">>}

NextFiles ==
    \/ \E opened \in BOOLEAN : NewFileLogWriter(opened)
    \/ \E w \in FileIds, bytes \in Payloads : WriterWrite(w, bytes)
    \/ \E w \in FileIds : WriterClose(w)
    \/ \E bytes \in Payloads : StdOutWrite(bytes)
    \/ StdOutClose

SpecFiles ==
    /\ InitSequential
    /\ [][NextFiles]_vars

MaxCtxs == 3

MaxCtxOps == 4

\* The key a Logger is attached under, of the unexported type
\* contextKeyType, and keys of type string the program's user can make.
contextKey == [type |-> "contextKeyType", name |-> "balogan:context"]

UserKeys == {[type |-> "string", name |-> "balogan:context"],
             [type |-> "string", name |-> "existing"]}

\* ctx.Value(key): the value of the nearest context up the chain of parents
\* that was made with an equal key, or nil.
RECURSIVE Value(_, _, _)
Value(cs, c, key) ==
    IF cs[c].by = "Background" THEN Background.val
    ELSE IF cs[c].key = key THEN cs[c].val
    ELSE Value(cs, cs[c].parent, key)

\* A faulty FromContext: whatever is under the key counts as found.
FromContextAnyType(cs, c) ==
    IF c = 0 THEN <<0, FALSE>>
    ELSE LET v == Value(cs, c, contextKey) IN
         <<IF v.type = "Logger" THEN v.v ELSE 0, v.type # "nil">>

\* FromContext(ctx): <<logger, ok>>, with 0 for a nil *Logger.
FromContext(cs, c) ==
    IF c = 0 THEN <<0, FALSE>>
    ELSE LET v == Value(cs, c, contextKey) IN
         IF v.type = "Logger" THEN <<v.v, TRUE>> ELSE <<0, FALSE>>

\* context.WithValue(parent, key, val), called by function by: a nil parent
\* makes it panic.
ContextWithValue(c, key, val, by) ==
    /\ lastOp.n < MaxCtxOps
    /\ c \in 0..Len(ctxs)
    /\ Len(ctxs) <= MaxCtxs
    /\ ctxs' = IF c = 0 THEN ctxs
               ELSE Append(ctxs, [parent |-> c, key |-> key, val |-> val,
                                  by |-> by])
    /\ lastOp' = [n |-> lastOp.n + 1, op |-> by, recv |-> c, key |-> key.name,
                  value |-> <<>>, other |-> val.v,
                  result |-> IF c = 0 THEN 0 ELSE Len(ctxs) + 1,
                  err |-> IF c = 0 THEN "panic" ELSE "nil"]
    /\ UNCHANGED <<loggers, arrays, fmaps, DefaultFieldsFormatter, snapshot,
                   parent, mutex, call, gor, envVars, renderOrder,
                   dispatchOrder, exited, condVars, files, stdout>>

\* l.WithContext(ctx) on logger lg.
WithContext(lg, c) ==
    /\ lg \in DOMAIN loggers
    /\ ContextWithValue(c, contextKey, [type |-> "Logger", v |-> lg],
                        "WithContext")

\* The program's user attaches a string under a key of theirs or, inside
\* the package, under contextKey.
UserWithValue(c, key) ==
    ContextWithValue(c, key, [type |-> "string", v |-> 0], "WithValue")

\* A call of FromContext(ctx).
CallFromContext(c) ==
    /\ lastOp.n < MaxCtxOps
    /\ c \in 0..Len(ctxs)
    /\ lastOp' = [n |-> lastOp.n + 1, op |-> "FromContext", recv |-> c,
                  key |-> "", value |-> <<>>, other |-> 0,
                  result |-> FromContext(ctxs, c), err |-> "nil"]
    /\ UNCHANGED <<loggers, arrays, fmaps, DefaultFieldsFormatter, snapshot,
                   parent, mutex, call, gor, envVars, renderOrder,
                   dispatchOrder, exited, condVars, files, ctxs, stdout>>

CtxIds == 0..(MaxCtxs + 2)

NextCtx ==
    \/ \E lg \in LoggerIds, c \in CtxIds : WithContext(lg, c)
    \/ \E c \in CtxIds, key \in UserKeys \cup {contextKey} :
           UserWithValue(c, key)
    \/ \E c \in CtxIds : CallFromContext(c)
    \/ \E lg \in LoggerIds : WithField(lg, "id", <<"7">>)

SpecCtx ==
    /\ InitSequential
    /\ [][NextCtx]_vars

\* The contexts from c up its chain of parents, c included.
RECURSIVE Ancestors(_)
Ancestors(c) ==
    IF c = 0 THEN {} ELSE {c} \cup Ancestors(ctxs[c].parent)

\* The contexts of c's chain made with the logger key; a context made later
\* has the larger number.
Attachments(c) == {a \in Ancestors(c) : ctxs[a].key = contextKey}

Latest(S) == CHOOSE a \in S : \A b \in S : b <= a

\* C24: FromContext returns (nil, not found) for a nil context, for a
\* context with nothing attached under the logger key along its chain, and
\* for one whose latest attachment under the key is not a Logger; else it
\* returns the Logger of the latest attachment of the chain, found.  The
\* context l.WithContext(ctx) returns gives l itself, and gives for every
\* other key the value ctx gives.
C24_ContextLookup ==
    /\ FromContext(ctxs, 0) = <<0, FALSE>>
    /\ \A c \in DOMAIN ctxs :
           /\ FromContext(ctxs, c) =
                  IF Attachments(c) = {} THEN <<0, FALSE>>
                  ELSE LET v == ctxs[Latest(Attachments(c))].val IN
                       IF v.type = "Logger" THEN <<v.v, TRUE>> ELSE <<0, FALSE>>
           /\ ctxs[c].by = "WithContext" =>
                  /\ FromContext(ctxs, c) = <<ctxs[c].val.v, TRUE>>
                  /\ \A key \in UserKeys :
                         Value(ctxs, c, key) = Value(ctxs, ctxs[c].parent, key)
    /\ lastOp.op = "FromContext" => lastOp.result = FromContext(ctxs, lastOp.recv)

\* Two Loggers were attached one after the other along one chain that also
\* holds a user's value, and FromContext on the last context returned the
\* second Logger.
C24_Witness ==
    /\ Len(ctxs) = 4
    /\ ctxs[2].by = "WithValue" /\ ctxs[2].key \in UserKeys
    /\ ctxs[3].by = "WithContext" /\ ctxs[3].parent = 2 /\ ctxs[3].val.v = 1
    /\ ctxs[4].by = "WithContext" /\ ctxs[4].parent = 3 /\ ctxs[4].val.v = 2
    /\ lastOp.op = "FromContext" /\ lastOp.recv = 4
    /\ lastOp.result = <<2, TRUE>>

\* ------------------------------------------------ construction ----

\* Number of constructions and reassignments of the default formatter.
MaxConstructOps == 4

\* A constructor was called and made Logger made[2] on the maps made[1],
\* or panicked (made is then <<fmaps>>).
Construct(op, arg, made) ==
    /\ lastOp.n < MaxConstructOps
    /\ MayDerive
    /\ fmaps' = made[1]
    /\ IF Len(made) = 1
       THEN UNCHANGED <<loggers, mutex, snapshot, parent>>
       ELSE /\ loggers' = Append(loggers, made[2])
            /\ mutex' = Append(mutex, NoCall)
            /\ snapshot' = Append(snapshot, View(arrays, made[1], made[2]))
            /\ parent' = Append(parent, 0)
    /\ lastOp' = [n |-> lastOp.n + 1, op |-> op, recv |-> 0, key |-> "",
                  value |-> <<>>, other |-> arg,
                  result |-> IF Len(made) = 1 THEN 0 ELSE Len(loggers) + 1,
                  err |-> IF Len(made) = 1
                          THEN "panic: nil pointer dereference" ELSE "nil"]
    /\ UNCHANGED <<arrays, DefaultFieldsFormatter, call, gor, envVars,
                   renderOrder, dispatchOrder, exited, condVars, files, ctxs,
                   stdout>>

\* A call of New(level, writer); writer is StdOutWriter for nil.
CallNew(level, writer) ==
    Construct("New", 0,
              New(fmaps, level, writer, NilSlice, DefaultFieldsFormatter))

\* The configurations NewFromConfig is called with: cfg is a place of this
\* list, or 0 for the nil pointer.  Fields 1 is the map the caller holds.
Configs ==
    <<Config(DebugLevel, <<1>>, NilSlice, TRUE, 1, JSONFormatter),
      Config(InfoLevel, <<1, 2>>, NilSlice, FALSE, 1, NilFormatter),
      Config(InfoLevel, <<1>>, NilSlice, FALSE, 0, NilFormatter)>>

\* A call of NewFromConfig(cfg): cfg.Fields is read first, which panics for
\* a nil cfg.
CallNewFromConfig(cfg) ==
    Construct("NewFromConfig", cfg,
              IF cfg = 0 THEN <<fmaps>>
              ELSE NewFromConfig(fmaps, Configs[cfg], DefaultFieldsFormatter))

\* The program assigns DefaultFieldsFormatter.
SetDefaultFieldsFormatter(formatter) ==
    /\ lastOp.n < MaxConstructOps
    /\ DefaultFieldsFormatter' = formatter
    /\ lastOp' = [NoOp EXCEPT !.n = lastOp.n + 1, !.op = "SetDefault"]
    /\ UNCHANGED <<loggers, arrays, fmaps, snapshot, parent, mutex, call, gor,
                   envVars, renderOrder, dispatchOrder, exited, condVars,
                   files, ctxs, stdout>>

NextConstruct ==
    \/ \E level \in {InfoLevel, ErrorLevel},
          writer \in {StdOutWriter, 1} : CallNew(level, writer)
    \/ \E cfg \in 0..Len(Configs) : CallNewFromConfig(cfg)
    \/ \E formatter \in {JSONFormatter, LogfmtFormatter} :
           SetDefaultFieldsFormatter(formatter)
    \/ \E lg \in LoggerIds : WithField(lg, "id", <<"7">>)

SpecConstruct ==
    /\ InitSequential
    /\ [][NextConstruct]_vars

\* C25: NewFromConfig(nil) returns a Logger, not nil, and does not fail.
C25_NilConfigGivesLogger ==
    (lastOp.op = "NewFromConfig" /\ lastOp.other = 0) =>
        /\ lastOp.err = "nil"
        /\ lastOp.result \in DOMAIN loggers

C29_ConfigFieldsOwned ==
    /\ fmaps[loggers[1].fields] = snapshot[1].fields
    /\ View(arrays, fmaps, loggers[1]).rendered = snapshot[1].rendered
    /\ lastOp.op = "GetFields" => fmaps[lastOp.result] = snapshot[1].fields

\* C27: StdOutLogWriter.Write(b) adds the text of b (with or without a line
\* end after it) to standard output and returns (len(b), nil), also after a
\* Close; Close returns nil and prints nothing.
C27_StdOutText ==
    [][lastOp'.n > lastOp.n =>
           /\ lastOp'.op = "StdOutWrite" =>
                  /\ stdout' \in {stdout \o lastOp'.value,
                                   stdout \o lastOp'.value \o <<"\n">>}
                  /\ lastOp'.result = Len(lastOp'.value)
                  /\ lastOp'.err = "nil"
           /\ lastOp'.op = "StdOutClose" =>
                  lastOp'.err = "nil" /\ stdout' = stdout]_vars

\* C30: what a writer's Write is handed for an emission is the rendered
\* message of that emission and nothing more, the same for every writer of
\* the Logger; the payloads a writer got come in the order in which their
\* emissions were dispatched, so what it received is the rendered messages of
\* the emissions put one after the other in dispatch order.
C30_PayloadIsMessage ==
    \A w \in WriterIds :
        LET got == invoked[w] IN
        /\ \A i \in 1..Len(got) :
               LET c == got[i].call IN
               /\ got[i].bytes = BuildMessage(arrays, fmaps, Target(c),
                                              call[c].level, call[c].msg)
               /\ \A v \in WriterIds :
                      \A j \in 1..Len(invoked[v]) :
                          invoked[v][j].call = c =>
                              invoked[v][j].bytes = got[i].bytes
        /\ \A i, j \in 1..Len(got) :
               i < j => Place(dispatchOrder, got[i].call)
                            < Place(dispatchOrder, got[j].call)

\* Two emissions were dispatched one after the other and both writers got
\* the payloads of both.
C30_Witness ==
    /\ Len(dispatchOrder) = 2
    /\ \A w \in WriterIds :
           /\ Len(invoked[w]) = 2
           /\ invoked[w][1].call = dispatchOrder[1]
           /\ invoked[w][2].call = dispatchOrder[2]
           /\ invoked[w][1].bytes = call[dispatchOrder[1]].full
    /\ \A c \in Calls : IsLog(c) /\ call[c].pc = "returned"

\* ------------------------------------ a handler that logs an error ----

\* The Logger the error handler "relog" emits the error on.
RelogTarget == 1

\* logger.errorHandler = handler, with a handler whose Handle calls
\* Error(err) on Logger RelogTarget.  A Logger derived later holds the same
\* handler.
SetErrorHandler(lg) ==
    /\ lg \in DOMAIN loggers
    /\ loggers[lg].errorHandler = "default"
    /\ \A c \in Calls : call[c].pc = "idle"
    /\ loggers' = [loggers EXCEPT ![lg].errorHandler = "relog"]
    /\ UNCHANGED <<arrays, fmaps, DefaultFieldsFormatter, snapshot, parent,
                   condVars, libVars, envVars, mutex, call, gor, renderOrder,
                   dispatchOrder, exited>>

\* write: l.errorHandler.Handle(err) of a handler that returns at once.
HandleDefault(c) ==
    /\ call[c].pc = "handle"
    /\ Target(c).errorHandler = "default"
    /\ Handle(c)

\* write: l.errorHandler.Handle(err) of the handler that logs: Handle is
\* entered in the goroutine of call c, which holds the mutex of its Logger,
\* and calls Error(err) there, as call d.
HandleRelog(c, d) ==
    /\ exited = NoCall
    /\ call[c].pc = "handle"
    /\ Target(c).errorHandler = "relog"
    /\ call[c].idx <= Len(call[c].errs)
    /\ c # d /\ call[d].pc = "idle"
    /\ handled' = Append(handled, call[c].errs[call[c].idx])
    /\ call' = [call EXCEPT
           ![c].pc = "inhandler",
           ![d] = [@ EXCEPT
               !.pc = IF IsEnabled(ErrorLevel, loggers[RelogTarget].level)
                      THEN "render" ELSE "returned",
               !.kind = "log", !.after = "return", !.target = RelogTarget,
               !.level = ErrorLevel, !.msg = <<"err">>, !.formats = 1]]
    /\ UNCHANGED <<heapVars, invoked, running, closes, mutex, gor, renderOrder,
                   dispatchOrder, exited>>

\* Error(err) has returned to Handle, and Handle returns to write.
HandleReturn(c, d) ==
    /\ exited = NoCall
    /\ call[c].pc = "inhandler"
    /\ c # d /\ call[d].pc = "returned"
    /\ call' = [call EXCEPT ![c].pc = "handle", ![c].idx = @ + 1,
                            ![d] = IdleCall]
    /\ UNCHANGED <<heapVars, envVars, mutex, gor, renderOrder, dispatchOrder,
                   exited>>

\* One Logger is derived from the first; call 1 emits on either, in
\* sequential mode; its writers may fail, the writers of the emission the
\* handler makes do not.
NextHandler ==
    \/ \E lg \in LoggerIds : SetErrorHandler(lg)
    \/ Len(loggers) = 1 /\ WithField(1, "id", <<"7">>)
    \/ \E lg \in LoggerIds : Info(1, lg, Args(1))
    \/ \E c \in Calls : Render(c)
    \/ \E c \in Calls : Lock(c)
    \/ \E c \in Calls : SeqWriteCall(c)
    \/ \E ok \in BOOLEAN : SeqWriteReturn(1, ok)
    \/ SeqWriteReturn(2, TRUE)
    \/ \E c \in Calls : HandleDefault(c)
    \/ HandleRelog(1, 2)
    \/ HandleReturn(1, 2)
    \/ \E c \in Calls : Unlock(c)

\* Whatever can be done next is done some time: a goroutine that is not
\* blocked goes on.
SpecHandler ==
    /\ InitSequential
    /\ [][NextHandler]_vars
    /\ WF_vars(NextHandler)

\* C28: an emission whose errors go to a handler that emits on the same
\* Logger returns in the end, its Logger's mutex released, whenever every
\* Write returns.
C28_HandlerReturns ==
    \A c \in Calls :
        (/\ call[c].pc = "handle"
         /\ Target(c).errorHandler = "relog"
         /\ call[c].target = RelogTarget)
            ~> (call[c].pc = "returned" /\ mutex[RelogTarget] # c)

====
